---- MODULE Spec2Model ----
(***************************************************************************)
(* Plan-execution pipeline of the research agent:                          *)
(* ToolExecutor.execute_tool and ToolExecutor.execute_plan                 *)
(* (src/backend/agent/executor.py) together with                           *)
(* ReportSynthesizer.extract_citations and generate_report                 *)
(* (src/backend/agent/synthesizer.py), and ResearchAgent.research          *)
(* (src/backend/agent/research_agent.py), which runs planning, execution   *)
(* and synthesis in turn. Further specifications cover two runs on the     *)
(* shared agent, the HTTP boundary (src/backend/main.py),                  *)
(* WebScraperTool.scrape with the url validators, JSONCache                *)
(* (src/backend/storage/cache.py), ResearchAgent.research_streaming on     *)
(* its own and followed by research on the same answers, and the           *)
(* synchronous endpoint with its deadline while the run goes on.           *)
(*                                                                         *)
(* Python strings that the code builds by formatting or concatenation are  *)
(* modelled as sequences: a text is a sequence of one-character strings,   *)
(* a formatted message is the sequence of its parts.                       *)
(***************************************************************************)
EXTENDS Integers, Sequences, FiniteSets, TLC

----------------------------------------------------------------------------
(* Bounds of the model *)

\* plans carry 0..MaxSubQ sub-questions
MaxSubQ == 6
\* plans carry 0..MaxStages stages in tool_sequence
MaxStages == 3
\* a run is followed for at most MaxCalls tool invocations
MaxCalls == 4
\* a summarizer stage finds 0..MaxScraped scraper entries in the log
MaxScraped == 3
\* a report is written from a log with 0..MaxSearched search entries
MaxSearched == 2

----------------------------------------------------------------------------
(* Program constants *)

MAX_SUB_QUESTIONS == 5
MAX_URLS_TO_SCRAPE == 3
MAX_SEARCH_RESULTS == 3
MAIN_QUERY_THRESHOLD == 3
ENOUGH_SCRAPES == 2
PER_TEXT_LIMIT == 2000
BUFFER_LIMIT == 3000
SUMMARY_MAX_LENGTH == 150
MIN_SUMMARY_INPUT == 10

----------------------------------------------------------------------------
(* Python helpers *)

Min(a, b) == IF a < b THEN a ELSE b

\* s[:n]
Take(s, n) == SubSeq(s, 1, Min(n, Len(s)))

\* d.get(key, default)
Get(d, key, default) == IF key \in DOMAIN d THEN d[key] ELSE default

\* sum(1 for r in rs if r.get('success'))
RECURSIVE CountSuccessful(_)
CountSuccessful(rs) ==
    IF rs = <<>> THEN 0
    ELSE (IF Get(Head(rs), "success", FALSE) THEN 1 ELSE 0) + CountSuccessful(Tail(rs))

----------------------------------------------------------------------------
(* The tools behind the registry *)

\* self.tools of ToolExecutor.__init__
Registry == {"web_search", "scraper", "data_analysis", "calculator", "summarizer"}

\* stage names a plan may carry: the registered tools and one unregistered name
ToolNames == Registry \cup {"translator"}

\* validate_url on the urls search items carry ("https://a.org",
\* "https://b.org" and the empty url): http(s) scheme and a host
ValidateUrl(url) == url \in {"https://a.org", "https://b.org"}

\* the items a search can return, as formatted by WebSearchTool.search
ItemPool ==
    << [title |-> "A", url |-> "https://a.org"],
       [title |-> "D", url |-> ""],
       [title |-> "", url |-> "https://b.org"] >>

\* message of the exception a tool call lets escape (tenacity's RetryError)
ExceptionMessages == { <<"RetryError">> }

Raised(msg) == [raised |-> TRUE, message |-> msg]
Returned(payload) == [raised |-> FALSE, payload |-> payload]

\* how many items a search that finds something returns: one, or as many as
\* max_results allows
ResultCounts == {1, MAX_SEARCH_RESULTS}

\* WebSearchTool.search(query): the retries give up and raise, the search
\* fails and empty results carry the error, or the search returns items
SearchOutcomes(query) ==
    { Raised(m) : m \in ExceptionMessages }
    \cup { Returned([results |-> <<>>, query |-> query, total_results |-> 0,
                     error |-> <<"search failed">>]) }
    \cup { Returned([results |-> Take(ItemPool, k), query |-> query,
                     total_results |-> k]) : k \in ResultCounts }

\* the page texts a scrape can extract
PageTexts == { <<>>, <<"a", "b", " ", "7", "c">> }

\* WebScraperTool.scrape(url): an invalid url is rejected in the payload; on
\* a valid one the retries give up and raise, or a page is extracted
ScrapeOutcomes(url) ==
    IF ~ValidateUrl(url)
    THEN { Returned([url |-> url, title |-> "", text |-> <<>>, length |-> 0,
                     success |-> FALSE, error |-> <<"Invalid URL">>]) }
    ELSE { Raised(m) : m \in ExceptionMessages }
         \cup { Returned([url |-> url, title |-> (IF t = <<>> THEN "" ELSE "Page"),
                          text |-> t, length |-> Len(t), success |-> TRUE])
                : t \in PageTexts }

IsDigit(c) == c \in {"7"}

\* extract_numbers: the number of maximal digit runs of the text
RECURSIVE CountNumbers(_, _)
CountNumbers(text, inRun) ==
    IF text = <<>> THEN 0
    ELSE IF IsDigit(Head(text))
         THEN (IF inRun THEN 0 ELSE 1) + CountNumbers(Tail(text), TRUE)
         ELSE CountNumbers(Tail(text), FALSE)

\* DataAnalysisTool.analyze(text=..., data=None, create_chart=...)
AnalyzeOutcomes(text, create_chart) ==
    { Raised(m) : m \in ExceptionMessages }
    \cup { Returned(
             IF text = <<>> THEN [empty |-> TRUE]
             ELSE [extracted_data |-> [count |-> CountNumbers(text, FALSE)],
                   chart |-> create_chart /\ CountNumbers(text, FALSE) > 0]) }

\* CalculatorTool.calculate(expression) on the empty expression
CalculateOutcomes(expression) ==
    { Returned([expression |-> expression, result |-> "None", success |-> FALSE,
                error |-> <<"Expression contains invalid characters">>]) }

IsSpace(c) == c \in {" ", "\n"}

\* str.strip()
RECURSIVE LStrip(_)
LStrip(s) == IF s # <<>> /\ IsSpace(Head(s)) THEN LStrip(Tail(s)) ELSE s
RECURSIVE RStrip(_)
RStrip(s) == IF s # <<>> /\ IsSpace(s[Len(s)]) THEN RStrip(SubSeq(s, 1, Len(s) - 1)) ELSE s
Strip(s) == RStrip(LStrip(s))

\* SummarizerTool.summarize(text, max_length, style)
SummarizeOutcomes(text, max_length, style) ==
    IF text = <<>> \/ Len(Strip(text)) < MIN_SUMMARY_INPUT
    THEN { Returned([summary |-> text, success |-> FALSE,
                     error |-> <<"Text too short to summarize">>]) }
    ELSE { Raised(m) : m \in ExceptionMessages }
         \cup { Returned([summary |-> <<"s">>, success |-> TRUE]),
                Returned([summary |-> <<>>, success |-> FALSE, error |-> <<"llm">>]) }

----------------------------------------------------------------------------
(* ToolExecutor.execute_tool *)

\* the arguments execute_tool extracts from kwargs for the tool's method
\* (an absent text is <<>> and an absent max_length is 0: the tools treat
\* None and the empty value alike)
ToolCallArgs(tool_name, kwargs) ==
    CASE tool_name = "web_search" -> [query |-> Get(kwargs, "query", "")]
      [] tool_name = "scraper" -> [url |-> Get(kwargs, "url", "")]
      [] tool_name = "data_analysis" ->
            [text |-> Get(kwargs, "text", <<>>), data |-> Get(kwargs, "data", "None"),
             create_chart |-> Get(kwargs, "create_chart", FALSE)]
      [] tool_name = "calculator" -> [expression |-> Get(kwargs, "expression", "")]
      [] tool_name = "summarizer" ->
            [text |-> Get(kwargs, "text", <<>>), max_length |-> Get(kwargs, "max_length", 0),
             style |-> Get(kwargs, "style", "concise")]
      [] OTHER -> [none |-> TRUE]

\* what the tool's method can do on these arguments: return a payload or raise
ToolOutcomes(tool_name, args) ==
    CASE tool_name = "web_search" -> SearchOutcomes(args.query)
      [] tool_name = "scraper" -> ScrapeOutcomes(args.url)
      [] tool_name = "data_analysis" -> AnalyzeOutcomes(args.text, args.create_chart)
      [] tool_name = "calculator" -> CalculateOutcomes(args.expression)
      [] tool_name = "summarizer" -> SummarizeOutcomes(args.text, args.max_length, args.style)
      [] OTHER -> {}

\* the outcomes execute_tool can meet: none is needed when no tool is called
CallOutcomes(tool_name, kwargs) ==
    IF tool_name \in Registry
    THEN ToolOutcomes(tool_name, ToolCallArgs(tool_name, kwargs))
    ELSE { [raised |-> FALSE, payload |-> "no call"] }

\* execute_tool with an except clause that drops the exception's message
ExecuteTool_LosesMessage(tool_name, kwargs, outcome) ==
    IF tool_name \notin Registry
    THEN [tool |-> tool_name, success |-> FALSE,
          error |-> <<"Unknown tool: ", tool_name>>]
    ELSE IF outcome.raised
         THEN [tool |-> tool_name, success |-> FALSE, error |-> <<"Unknown error">>]
         ELSE [tool |-> tool_name, success |-> TRUE, result |-> outcome.payload]

\* execute_tool without the registry check: self.tools[tool_name] raises
\* KeyError inside the try
ExecuteTool_NoRegistryCheck(tool_name, kwargs, outcome) ==
    IF tool_name \notin Registry
    THEN [tool |-> tool_name, success |-> FALSE, error |-> <<"'", tool_name, "'">>]
    ELSE IF outcome.raised
         THEN [tool |-> tool_name, success |-> FALSE, error |-> outcome.message]
         ELSE [tool |-> tool_name, success |-> TRUE, result |-> outcome.payload]

\* execute_tool whose failures keep a result field
ExecuteTool_KeepsResult(tool_name, kwargs, outcome) ==
    IF tool_name \notin Registry
    THEN [tool |-> tool_name, success |-> FALSE,
          error |-> <<"Unknown tool: ", tool_name>>]
    ELSE IF outcome.raised
         THEN [tool |-> tool_name, success |-> FALSE, error |-> outcome.message,
               result |-> "None"]
         ELSE [tool |-> tool_name, success |-> TRUE, result |-> outcome.payload]

\* execute_tool that takes over the success field of the payload
ExecuteTool_HonoursPayload(tool_name, kwargs, outcome) ==
    IF tool_name \notin Registry
    THEN [tool |-> tool_name, success |-> FALSE,
          error |-> <<"Unknown tool: ", tool_name>>]
    ELSE IF outcome.raised
         THEN [tool |-> tool_name, success |-> FALSE, error |-> outcome.message]
         ELSE [tool |-> tool_name,
               success |-> Get(outcome.payload, "success", TRUE)
                           /\ "error" \notin DOMAIN outcome.payload,
               result |-> outcome.payload]

\* execute_tool(tool_name, **kwargs), given what the tool's method did
ExecuteTool(tool_name, kwargs, outcome) ==
    IF tool_name \notin Registry
    THEN [tool |-> tool_name, success |-> FALSE,
          error |-> <<"Unknown tool: ", tool_name>>]
    ELSE IF outcome.raised
         THEN [tool |-> tool_name, success |-> FALSE, error |-> outcome.message]
         ELSE [tool |-> tool_name, success |-> TRUE, result |-> outcome.payload]

\* the record of the tool-method calls execute_tool makes: one for a
\* registered tool, none for an unknown name
CallsOf(tool_name, kwargs) ==
    IF tool_name \in Registry
    THEN << [tool |-> tool_name, args |-> ToolCallArgs(tool_name, kwargs)] >>
    ELSE <<>>

----------------------------------------------------------------------------
(* ToolExecutor.execute_plan: the data each stage derives *)

\* sub_questions[:config.MAX_SUB_QUESTIONS]
LimitedSubQuestions(sub_questions) == Take(sub_questions, MAX_SUB_QUESTIONS)

\* the main-query shortcut taken one sub-question too late
SearchQueries_OffByOne(p) ==
    LET limited == LimitedSubQuestions(p.sub_questions)
    IN  IF Len(limited) > MAIN_QUERY_THRESHOLD + 1
        THEN << Get(p, "query", limited[1]) >>
        ELSE limited

\* a web_search stage that searches every remaining sub-question
SearchQueries_EachQuestion(p) == LimitedSubQuestions(p.sub_questions)

\* the queries of a web_search stage: the main query when more than 3
\* sub-questions remain, else the sub-questions themselves
SearchQueries(p) ==
    LET limited == LimitedSubQuestions(p.sub_questions)
    IN  IF Len(limited) > MAIN_QUERY_THRESHOLD
        THEN << Get(p, "query", limited[1]) >>
        ELSE limited

\* url collection that skips items whose url is empty
RECURSIVE ItemUrls_SkipEmpty(_)
ItemUrls_SkipEmpty(items) ==
    IF items = <<>> THEN <<>>
    ELSE (IF Get(Head(items), "url", "") # "" THEN << Head(items).url >> ELSE <<>>)
         \o ItemUrls_SkipEmpty(Tail(items))

\* the urls one search result adds to urls_to_scrape
RECURSIVE ItemUrls(_)
ItemUrls(items) ==
    IF items = <<>> THEN <<>>
    ELSE (IF "url" \in DOMAIN Head(items) THEN << Head(items).url >> ELSE <<>>)
         \o ItemUrls(Tail(items))

CollectUrls(result) ==
    IF Get(result, "success", FALSE) /\ "result" \in DOMAIN result
       /\ "results" \in DOMAIN result.result
    THEN ItemUrls(result.result.results)
    ELSE <<>>

\* the newest urls first: urls_to_scrape[-max_urls:]
ScrapeCandidates_Latest(urls) ==
    SubSeq(urls, Len(urls) - Min(MAX_URLS_TO_SCRAPE, Len(urls)) + 1, Len(urls))

\* urls_to_scrape[:max_urls]
ScrapeCandidates(urls) == Take(urls, MAX_URLS_TO_SCRAPE)

\* a break that needs one success more
EnoughScrapes_OneMore(results) == CountSuccessful(results) > ENOUGH_SCRAPES

\* the break of the scrape loop
EnoughScrapes(results) == CountSuccessful(results) >= ENOUGH_SCRAPES

IsScraped(r) == Get(r, "tool", "") = "scraper" /\ Get(r, "success", FALSE)

\* text collection that also takes the failed scraper entries
RECURSIVE TextToAnalyze_AllScrapes(_)
TextToAnalyze_AllScrapes(results) ==
    IF results = <<>> THEN <<>>
    ELSE (IF Get(Head(results), "tool", "") = "scraper"
          THEN Get(Get(Head(results), "result", <<>>), "text", <<>>) \o <<" ">>
          ELSE <<>>)
         \o TextToAnalyze_AllScrapes(Tail(results))

\* text collection that passes over the scrapes whose text is empty
RECURSIVE TextToAnalyze_SkipEmpty(_)
TextToAnalyze_SkipEmpty(results) ==
    IF results = <<>> THEN <<>>
    ELSE (IF IsScraped(Head(results))
             /\ Get(Get(Head(results), "result", <<>>), "text", <<>>) # <<>>
          THEN Get(Get(Head(results), "result", <<>>), "text", <<>>) \o <<" ">>
          ELSE <<>>)
         \o TextToAnalyze_SkipEmpty(Tail(results))

\* text_to_analyze of the data_analysis stage
RECURSIVE TextToAnalyze(_)
TextToAnalyze(results) ==
    IF results = <<>> THEN <<>>
    ELSE (IF IsScraped(Head(results))
          THEN Get(Get(Head(results), "result", <<>>), "text", <<>>) \o <<" ">>
          ELSE <<>>)
         \o TextToAnalyze(Tail(results))

\* the whole of every scraped text collected, with no limit
RECURSIVE CollectSummary_Unlimited(_, _)
CollectSummary_Unlimited(results, acc) ==
    IF results = <<>> THEN acc
    ELSE IF IsScraped(Head(results))
         THEN CollectSummary_Unlimited(Tail(results),
                  acc \o Get(Get(Head(results), "result", <<>>), "text", <<>>)
                      \o <<"\n", "\n">>)
         ELSE CollectSummary_Unlimited(Tail(results), acc)

\* text_to_summarize of the summarizer stage, built up from acc
RECURSIVE CollectSummary(_, _)
CollectSummary(results, acc) ==
    IF results = <<>> THEN acc
    ELSE IF IsScraped(Head(results))
         THEN LET text == Get(Get(Head(results), "result", <<>>), "text", <<>>)
                  next == acc \o Take(text, PER_TEXT_LIMIT) \o <<"\n", "\n">>
              IN  IF Len(next) > BUFFER_LIMIT THEN next
                  ELSE CollectSummary(Tail(results), next)
         ELSE CollectSummary(Tail(results), acc)

TextToSummarize(results) == CollectSummary(results, <<>>)

\* the entry the error check appends for the stage's tool_result
StageErrors(tool_name, tool_result) ==
    IF ~Get(tool_result, "success", FALSE)
    THEN << [tool |-> tool_name, error |-> Get(tool_result, "error", <<"Unknown error">>)] >>
    ELSE <<>>

\* results put in front of the log
Extend_Prepend(log, results) == results \o log

\* list.extend
Extend(log, results) == log \o results

----------------------------------------------------------------------------
(* Synthesizer.extract_citations *)

SeenUrls(citations) == { citations[i].url : i \in 1..Len(citations) }

\* citation added without the seen_urls check
Cite_NoDedup(citations, url, title) ==
    IF url # ""
    THEN Append(citations, [title |-> (IF title # "" THEN title ELSE url), url |-> url])
    ELSE citations

\* a url seen again takes the later title
Cite_LatestTitle(citations, url, title) ==
    IF url = "" THEN citations
    ELSE IF url \notin SeenUrls(citations)
         THEN Append(citations, [title |-> (IF title # "" THEN title ELSE url), url |-> url])
         ELSE [i \in 1..Len(citations) |->
                 IF citations[i].url = url
                 THEN [title |-> (IF title # "" THEN title ELSE url), url |-> url]
                 ELSE citations[i]]

\* a citation that keeps an empty title
Cite_EmptyTitle(citations, url, title) ==
    IF url # "" /\ url \notin SeenUrls(citations)
    THEN Append(citations, [title |-> title, url |-> url])
    ELSE citations

\* one url/title pair: added unless the url is empty or already seen
Cite(citations, url, title) ==
    IF url # "" /\ url \notin SeenUrls(citations)
    THEN Append(citations, [title |-> (IF title # "" THEN title ELSE url), url |-> url])
    ELSE citations

\* for item in search_results
RECURSIVE CiteItems(_, _)
CiteItems(items, citations) ==
    IF items = <<>> THEN citations
    ELSE CiteItems(Tail(items),
                   Cite(citations, Get(Head(items), "url", ""), Get(Head(items), "title", "")))

\* for result in tool_results
RECURSIVE CiteResults(_, _)
CiteResults(results, citations) ==
    IF results = <<>> THEN citations
    ELSE LET result == Head(results)
             tool_data == Get(result, "result", <<>>)
         IN  CiteResults(Tail(results),
               IF ~Get(result, "success", FALSE) THEN citations
               ELSE IF Get(result, "tool", "") = "web_search"
                    THEN CiteItems(Get(tool_data, "results", <<>>), citations)
               ELSE IF Get(result, "tool", "") = "scraper"
                    THEN Cite(citations, Get(tool_data, "url", ""), Get(tool_data, "title", ""))
               ELSE citations)

ExtractCitations(results) == CiteResults(results, <<>>)

----------------------------------------------------------------------------
(* Python strings, character by character *)

\* the characters of the titles and urls of the model
Chars(s) ==
    CASE s = "" -> <<>>
      [] s = "A" -> << "A" >>
      [] s = "B" -> << "B" >>
      [] s = "D" -> << "D" >>
      [] s = "E" -> << "E" >>
      [] s = "Page" -> << "P", "a", "g", "e" >>
      [] s = "https://a.org" ->
            << "h", "t", "t", "p", "s", ":", "/", "/", "a", ".", "o", "r", "g" >>
      [] s = "https://a.org/" ->
            << "h", "t", "t", "p", "s", ":", "/", "/", "a", ".", "o", "r", "g", "/" >>
      [] s = "https://b.org" ->
            << "h", "t", "t", "p", "s", ":", "/", "/", "b", ".", "o", "r", "g" >>

Digits == << "0", "1", "2", "3", "4", "5", "6", "7", "8", "9" >>

\* str(n) of a natural number
RECURSIVE Numeral(_)
Numeral(n) ==
    IF n < 10 THEN << Digits[n + 1] >>
    ELSE Numeral(n \div 10) \o << Digits[(n % 10) + 1] >>

\* sep.join(parts)
RECURSIVE Join(_, _)
Join(parts, sep) ==
    IF parts = <<>> THEN <<>>
    ELSE IF Len(parts) = 1 THEN parts[1]
    ELSE parts[1] \o sep \o Join(Tail(parts), sep)

\* needle in hay
Contains(hay, needle) ==
    \E i \in 1..(Len(hay) - Len(needle) + 1) :
        \A j \in 1..Len(needle) : hay[i + j - 1] = needle[j]

\* repr of a str
Quoted(s) == << "'" >> \o Chars(s) \o << "'" >>

\* str of one search item, a dict
TitleKey ==
    << "{", "'", "t", "i", "t", "l", "e", "'", ":", " " >>

UrlKey ==
    << ",", " ", "'", "u", "r", "l", "'", ":", " " >>

StrItem(item) ==
    TitleKey \o Quoted(item.title) \o UrlKey \o Quoted(item.url) \o << "}" >>

\* str of a list of search items
StrItems(items) ==
    << "[" >> \o Join([k \in 1..Len(items) |-> StrItem(items[k])], << ",", " " >>)
           \o << "]" >>

ExtractedDataKey ==
    << "{", "'", "e", "x", "t", "r", "a", "c", "t", "e", "d", "_", "d", "a",
       "t", "a", "'", ":", " ", "{", "'", "c", "o", "u", "n", "t", "'", ":",
       " " >>

ChartKey ==
    << "}", ",", " ", "'", "c", "h", "a", "r", "t", "'", ":", " " >>

\* str of the payload of an analysis, a dict
StrAnalysis(payload) ==
    ExtractedDataKey \o Numeral(payload.extracted_data.count) \o ChartKey
        \o (IF payload.chart THEN << "T", "r", "u", "e" >>
            ELSE << "F", "a", "l", "s", "e" >>)
        \o << "}" >>

----------------------------------------------------------------------------
(* Synthesizer.generate_report *)

CONTEXT_ITEMS == 3
CONTEXT_PAGES == 3
CONTEXT_TEXT_LIMIT == 1000
FALLBACK_CONTEXT_LIMIT == 2000

\* the payloads of the successful entries of one tool, in order
RECURSIVE PayloadsOf(_, _)
PayloadsOf(results, tool_name) ==
    IF results = <<>> THEN <<>>
    ELSE (IF Get(Head(results), "success", FALSE)
             /\ Get(Head(results), "tool", "") = tool_name
          THEN << Get(Head(results), "result", <<>>) >>
          ELSE <<>>)
         \o PayloadsOf(Tail(results), tool_name)

SearchResultsHeader ==
    << "S", "e", "a", "r", "c", "h", " ", "R", "e", "s", "u", "l", "t", "s",
       ":", "\n" >>

ContentFrom ==
    << "C", "o", "n", "t", "e", "n", "t", " ", "f", "r", "o", "m", " " >>

DataAnalysisHeader ==
    << "D", "a", "t", "a", " ", "A", "n", "a", "l", "y", "s", "i", "s", ":",
       "\n" >>

DefaultPageTitle ==
    << "p", "a", "g", "e" >>

\* for search in search_info: the first items of every search that has results
RECURSIVE SearchParts(_)
SearchParts(search_info) ==
    IF search_info = <<>> THEN <<>>
    ELSE (IF "results" \in DOMAIN Head(search_info)
          THEN << SearchResultsHeader
                    \o StrItems(Take(Head(search_info).results, CONTEXT_ITEMS)) >>
          ELSE <<>>)
         \o SearchParts(Tail(search_info))

\* a page put into the context whole
ScrapedPart_Whole(scraped) ==
    ContentFrom
        \o (IF "title" \in DOMAIN scraped THEN Chars(scraped.title) ELSE DefaultPageTitle)
        \o << ":", "\n" >> \o scraped.text

\* f"Content from {scraped.get('title', 'page')}:\n{text}", text cut to 1000
ScrapedPart(scraped) ==
    ContentFrom
        \o (IF "title" \in DOMAIN scraped THEN Chars(scraped.title) ELSE DefaultPageTitle)
        \o << ":", "\n" >> \o Take(scraped.text, CONTEXT_TEXT_LIMIT)

\* for scraped in scraped_content[:3]
RECURSIVE ScrapedParts(_)
ScrapedParts(pages) ==
    IF pages = <<>> THEN <<>>
    ELSE (IF "text" \in DOMAIN Head(pages) THEN << ScrapedPart(Head(pages)) >> ELSE <<>>)
         \o ScrapedParts(Tail(pages))

\* data_analysis is the payload of the last successful analysis; None and
\* the empty dict are skipped
AnalysisParts(analyses) ==
    IF analyses = <<>> \/ "empty" \in DOMAIN analyses[Len(analyses)] THEN <<>>
    ELSE << DataAnalysisHeader \o StrAnalysis(analyses[Len(analyses)]) >>

\* context parts that also carry the summaries
ContextParts_WithSummaries(results) ==
    SearchParts(PayloadsOf(results, "web_search"))
        \o ScrapedParts(Take(PayloadsOf(results, "scraper"), CONTEXT_PAGES))
        \o AnalysisParts(PayloadsOf(results, "data_analysis"))
        \o [k \in 1..Len(PayloadsOf(results, "summarizer")) |->
                Get(PayloadsOf(results, "summarizer")[k], "summary", <<>>)]

\* context_parts
ContextParts(results) ==
    SearchParts(PayloadsOf(results, "web_search"))
        \o ScrapedParts(Take(PayloadsOf(results, "scraper"), CONTEXT_PAGES))
        \o AnalysisParts(PayloadsOf(results, "data_analysis"))

\* context = "\n\n".join(context_parts)
BuildContext(results) == Join(ContextParts(results), << "\n", "\n" >>)

ReferencesHeading ==
    << "#", "#", " ", "R", "e", "f", "e", "r", "e", "n", "c", "e", "s" >>

ReferencesSection ==
    << "\n", "\n", "#", "#", " ", "R", "e", "f", "e", "r", "e", "n", "c", "e",
       "s", "\n", "\n" >>

\* f"{i}. [{citation['title']}]({citation['url']})\n"
ReferenceLine(i, citation) ==
    Numeral(i) \o << ".", " ", "[" >> \o Chars(citation.title) \o << "]", "(" >>
        \o Chars(citation.url) \o << ")", "\n" >>

\* the lines of enumerate(citations, 1), from the i-th on
RECURSIVE ReferenceLines(_, _)
ReferenceLines(citations, i) ==
    IF i > Len(citations) THEN <<>>
    ELSE ReferenceLine(i, citations[i]) \o ReferenceLines(citations, i + 1)

\* the references appended whatever the generated text holds
EnsureReferences_Always(markdown, citations) ==
    IF citations # <<>>
    THEN markdown \o ReferencesSection \o ReferenceLines(citations, 1)
    ELSE markdown

\* Ensure references section exists
EnsureReferences(markdown, citations) ==
    IF ~Contains(markdown, ReferencesHeading) /\ citations # <<>>
    THEN markdown \o ReferencesSection \o ReferenceLines(citations, 1)
    ELSE markdown

\* the fallback template, between its fields
FallbackTitle ==
    << "#", " ", "R", "e", "s", "e", "a", "r", "c", "h", " ", "R", "e", "p",
       "o", "r", "t", ":", " " >>

FallbackSummary ==
    << "\n", "\n", "#", "#", " ", "E", "x", "e", "c", "u", "t", "i", "v", "e",
       " ", "S", "u", "m", "m", "a", "r", "y", "\n", "\n", "R", "e", "s", "e",
       "a", "r", "c", "h", " ", "w", "a", "s", " ", "c", "o", "n", "d", "u",
       "c", "t", "e", "d", " ", "o", "n", ":", " " >>

FallbackFindings ==
    << "\n", "\n", "#", "#", " ", "K", "e", "y", " ", "F", "i", "n", "d", "i",
       "n", "g", "s", "\n", "\n", "-", " ", "I", "n", "f", "o", "r", "m", "a",
       "t", "i", "o", "n", " ", "g", "a", "t", "h", "e", "r", "e", "d", " ",
       "f", "r", "o", "m", " " >>

FallbackDeepDive ==
    << " ", "s", "o", "u", "r", "c", "e", "s", "\n", "-", " ", "M", "u", "l",
       "t", "i", "p", "l", "e", " ", "p", "e", "r", "s", "p", "e", "c", "t",
       "i", "v", "e", "s", " ", "a", "n", "a", "l", "y", "z", "e", "d", "\n",
       "\n", "#", "#", " ", "D", "e", "e", "p", " ", "D", "i", "v", "e", "\n",
       "\n" >>

FallbackConclusion ==
    << "\n", "\n", "#", "#", " ", "C", "o", "n", "c", "l", "u", "s", "i", "o",
       "n", "\n", "\n", "R", "e", "s", "e", "a", "r", "c", "h", " ", "c", "o",
       "m", "p", "l", "e", "t", "e", "d", " ", "w", "i", "t", "h", " ", "f",
       "i", "n", "d", "i", "n", "g", "s", " ", "f", "r", "o", "m", " ", "v",
       "a", "r", "i", "o", "u", "s", " ", "s", "o", "u", "r", "c", "e", "s",
       ".", "\n", "\n", "#", "#", " ", "R", "e", "f", "e", "r", "e", "n", "c",
       "e", "s", "\n", "\n" >>

\* the fallback report of the except clause
FallbackMarkdown(q, ctx, citations) ==
    FallbackTitle \o q \o FallbackSummary \o q \o FallbackFindings
        \o Numeral(Len(citations)) \o FallbackDeepDive
        \o Take(ctx, FALLBACK_CONTEXT_LIMIT) \o FallbackConclusion
        \o ReferenceLines(citations, 1)

\* what self.llm.generate returns: a report without and one with a references
\* section
PlainReport ==
    << "#", " ", "T", "\n", "\n", "f", "i", "n", "d", "i", "n", "g", "s", "\n" >>

ReferencedReport ==
    << "#", " ", "T", "\n", "\n", "#", "#", " ", "R", "e", "f", "e", "r", "e",
       "n", "c", "e", "s", "\n", "\n", "-", " ", "s", "\n" >>

GeneratedReports == { PlainReport, ReferencedReport }

\* self.llm.generate(prompt, ...): the retries give up and raise, or a text
\* comes back
GenerateOutcomes ==
    { Raised(m) : m \in ExceptionMessages }
    \cup { Returned(text) : text \in GeneratedReports }

\* a fallback report that claims success and keeps no error
Report_SilentFallback(q, results, outcome) ==
    LET citations == ExtractCitations(results)
        ctx == BuildContext(results)
    IN  IF outcome.raised
        THEN [query |-> q, markdown |-> FallbackMarkdown(q, ctx, citations),
              citations |-> citations, success |-> TRUE]
        ELSE [query |-> q, markdown |-> EnsureReferences(outcome.payload, citations),
              citations |-> citations, success |-> TRUE]

\* what generate_report(query, plan, tool_results) returns, given what
\* self.llm.generate did
Report(q, results, outcome) ==
    LET citations == ExtractCitations(results)
        ctx == BuildContext(results)
    IN  IF outcome.raised
        THEN [query |-> q, markdown |-> FallbackMarkdown(q, ctx, citations),
              citations |-> citations, success |-> FALSE, error |-> outcome.message]
        ELSE [query |-> q, markdown |-> EnsureReferences(outcome.payload, citations),
              citations |-> citations, success |-> TRUE]

----------------------------------------------------------------------------
(* ToolExecutor.execute_plan: the run *)

VARIABLES
    plan,            \* the plan execute_plan was called with
    pc,              \* "loop": at the head of the stage loop; "search", "scrape":
                     \* inside the loop of that stage; "done": returned
    stage,           \* index in tool_sequence of the stage being run
    pos,             \* index of the next query or url inside a stage
    tool_results,    \* all_results['tool_results']
    errors,          \* all_results['errors']
    success,         \* all_results['success']
    urls_to_scrape,  \* the url accumulator
    search_results,  \* search_results of the running web_search stage
    scrape_results,  \* scrape_results of the running scraper stage
    invocations,     \* history: every execute_tool invocation so far, in order
    query,           \* the query the report is written for
    report,          \* what generate_report returned
    generation,      \* history: the context handed to self.llm.generate and
                     \* what the call did
    research_result, \* what research returned
    planning,        \* history: the query create_plan was called with and what
                     \* its model call did
    parked,          \* the frame of the execute_plan call of the thread that is
                     \* not running
    running,         \* the thread that is running
    request,         \* a request at the HTTP boundary
    scrape,          \* a WebScraperTool.scrape call
    cache_file,      \* the file of one key of the JSONCache
    clock,           \* datetime.now(), in hours
    cache_calls,     \* the get and set calls on that key
    index_calls,     \* history: the calls research made on the similarity index
    events           \* the updates the streaming endpoint has passed on

vars == << plan, pc, stage, pos, tool_results, errors, success, urls_to_scrape,
           search_results, scrape_results, invocations, query, report, generation,
           research_result, planning, parked, running, request, scrape, cache_file,
           clock, cache_calls, index_calls, events >>

\* what lies outside one research call: the other thread, the HTTP boundary,
\* the scraper and the cache
apart == << parked, running, request, scrape, cache_file, clock, cache_calls,
           index_calls, events >>

\* the same without the similarity index
beside_index == << parked, running, request, scrape, cache_file, clock, cache_calls,
                  events >>

\* the same without the updates of the stream
beside_events == << parked, running, request, scrape, cache_file, clock, cache_calls,
                   index_calls >>

\* the variables of the caller, which execute_plan leaves alone
synth == << query, report, generation, research_result, planning, apart >>

NoReport == [none |-> TRUE]
NoGeneration == [none |-> TRUE]
NoResult == [none |-> TRUE]
NoPlanning == [none |-> TRUE]
NoFrame == [none |-> TRUE]
NoRequest == [none |-> TRUE]
NoScrape == [none |-> TRUE]
NoFile == [exists |-> FALSE]
NoCalls == [none |-> TRUE]

\* one thread, no request, no scrape call and no cache call under way
Apart ==
    /\ parked = NoFrame
    /\ running = 1
    /\ request = NoRequest
    /\ scrape = NoScrape
    /\ cache_file = NoFile
    /\ clock = 0
    /\ cache_calls = NoCalls
    /\ index_calls = <<>>
    /\ events = <<>>

\* the sub-questions "q1", "q2", ... of a plan
QuestionNames == << "q1", "q2", "q3", "q4", "q5", "q6", "q7", "q8" >>

RECURSIVE SeqsUpTo(_, _)
SeqsUpTo(S, n) ==
    IF n = 0 THEN { <<>> }
    ELSE LET shorter == SeqsUpTo(S, n - 1)
         IN  shorter \cup { Append(q, x) : q \in { r \in shorter : Len(r) = n - 1 }, x \in S }

\* the plans Planner.create_plan hands over
Plans ==
    { [query |-> "Q", sub_questions |-> Take(QuestionNames, n), tool_sequence |-> ts,
       reasoning |-> "r", success |-> TRUE]
      : n \in 0..MaxSubQ, ts \in SeqsUpTo(ToolNames, MaxStages) }

Init ==
    /\ plan \in Plans
    /\ pc = "loop"
    /\ stage = 1
    /\ pos = 1
    /\ tool_results = <<>>
    /\ errors = <<>>
    /\ success = TRUE
    /\ urls_to_scrape = <<>>
    /\ search_results = <<>>
    /\ scrape_results = <<>>
    /\ invocations = <<>>
    /\ query = << "Q" >>
    /\ report = NoReport
    /\ generation = NoGeneration
    /\ research_result = NoResult
    /\ planning = NoPlanning
    /\ Apart

\* an empty tool_sequence replaced by a default one
tool_sequence_Defaulted ==
    IF Get(plan, "tool_sequence", <<>>) = <<>> THEN << "web_search", "scraper" >>
    ELSE Get(plan, "tool_sequence", <<>>)

\* tool_sequence = plan.get('tool_sequence', [])
tool_sequence == Get(plan, "tool_sequence", <<>>)
AtStage(name) == pc = "loop" /\ stage <= Len(tool_sequence) /\ tool_sequence[stage] = name
CanInvoke == Len(invocations) < MaxCalls

\* one execute_tool invocation, as the history keeps it
Invocation(tool_name, kwargs, outcome) ==
    [stage |-> stage, tool |-> tool_name, kwargs |-> kwargs,
     calls |-> CallsOf(tool_name, kwargs), outcome |-> outcome,
     result |-> ExecuteTool(tool_name, kwargs, outcome)]

\* the flag cleared by a stage that recorded an error
RunSuccess_Strict(flag, stage_errors) == flag /\ stage_errors = <<>>

\* all_results['success'] after the error check of a stage: the check
\* appends to errors and leaves the flag as it is
RunSuccess(flag, stage_errors) == flag

\* the end of a loop body: the error check on tool_result, then the next stage
NextStage(tool_name, stage_errors) ==
    /\ errors' = errors \o stage_errors
    /\ success' = RunSuccess(success, stage_errors)
    /\ stage' = stage + 1
    /\ pos' = 1
    /\ pc' = "loop"

\* a web_search stage that cuts the caller's sub_questions list in place
BeginWebSearch_Truncating ==
    /\ AtStage("web_search")
    /\ search_results' = <<>>
    /\ pos' = 1
    /\ pc' = "search"
    /\ plan' = [plan EXCEPT !.sub_questions = LimitedSubQuestions(plan.sub_questions)]
    /\ UNCHANGED synth
    /\ UNCHANGED << stage, tool_results, errors, success, urls_to_scrape,
                    scrape_results, invocations >>

\* elif tool_name == 'web_search': search_results = []
BeginWebSearch ==
    /\ AtStage("web_search")
    /\ search_results' = <<>>
    /\ pos' = 1
    /\ pc' = "search"
    /\ UNCHANGED synth
    /\ UNCHANGED << plan, stage, tool_results, errors, success, urls_to_scrape,
                    scrape_results, invocations >>

\* one search of the stage: execute_tool('web_search', query=...), the append
\* to search_results and the collection of the item urls
SearchQuery ==
    /\ pc = "search"
    /\ pos <= Len(SearchQueries(plan))
    /\ CanInvoke
    /\ LET kwargs == [query |-> SearchQueries(plan)[pos]]
       IN  \E outcome \in CallOutcomes("web_search", kwargs) :
             LET result == ExecuteTool("web_search", kwargs, outcome)
             IN  /\ search_results' = Append(search_results, result)
                 /\ urls_to_scrape' = urls_to_scrape \o CollectUrls(result)
                 /\ invocations' = Append(invocations, Invocation("web_search", kwargs, outcome))
    /\ pos' = pos + 1
    /\ UNCHANGED synth
    /\ UNCHANGED << plan, pc, stage, tool_results, errors, success, scrape_results >>

\* all_results['tool_results'].extend(search_results); tool_result is None
EndWebSearch ==
    /\ pc = "search"
    /\ pos > Len(SearchQueries(plan))
    /\ tool_results' = Extend(tool_results, search_results)
    /\ NextStage("web_search", <<>>)
    /\ UNCHANGED synth
    /\ UNCHANGED << plan, urls_to_scrape, search_results, scrape_results,
                    invocations >>

\* elif tool_name == 'scraper': scrape_results = []
BeginScraper ==
    /\ AtStage("scraper")
    /\ scrape_results' = <<>>
    /\ pos' = 1
    /\ pc' = "scrape"
    /\ UNCHANGED synth
    /\ UNCHANGED << plan, stage, tool_results, errors, success, urls_to_scrape,
                    search_results, invocations >>

\* one scrape of the stage: execute_tool('scraper', url=url), the append to
\* scrape_results and the early break
ScrapeUrl ==
    /\ pc = "scrape"
    /\ pos <= Len(ScrapeCandidates(urls_to_scrape))
    /\ CanInvoke
    /\ LET kwargs == [url |-> ScrapeCandidates(urls_to_scrape)[pos]]
       IN  \E outcome \in CallOutcomes("scraper", kwargs) :
             LET result == ExecuteTool("scraper", kwargs, outcome)
                 results == Append(scrape_results, result)
             IN  /\ scrape_results' = results
                 /\ invocations' = Append(invocations, Invocation("scraper", kwargs, outcome))
                 /\ pos' = IF EnoughScrapes(results)
                           THEN Len(ScrapeCandidates(urls_to_scrape)) + 1
                           ELSE pos + 1
    /\ UNCHANGED synth
    /\ UNCHANGED << plan, pc, stage, tool_results, errors, success, urls_to_scrape,
                    search_results >>

\* all_results['tool_results'].extend(scrape_results); tool_result is None
EndScraper ==
    /\ pc = "scrape"
    /\ pos > Len(ScrapeCandidates(urls_to_scrape))
    /\ tool_results' = Extend(tool_results, scrape_results)
    /\ NextStage("scraper", <<>>)
    /\ UNCHANGED synth
    /\ UNCHANGED << plan, urls_to_scrape, search_results, scrape_results,
                    invocations >>

\* a stage that invokes execute_tool once and appends the result
InvokeOnce(tool_name, kwargs) ==
    /\ CanInvoke
    /\ \E outcome \in CallOutcomes(tool_name, kwargs) :
         LET result == ExecuteTool(tool_name, kwargs, outcome)
         IN  /\ tool_results' = Append(tool_results, result)
             /\ invocations' = Append(invocations, Invocation(tool_name, kwargs, outcome))
             /\ NextStage(tool_name, StageErrors(tool_name, result))
    /\ UNCHANGED synth
    /\ UNCHANGED << plan, urls_to_scrape, search_results, scrape_results >>

\* a stage whose buffer is empty: tool_result stays None
SkipStage ==
    /\ NextStage("", <<>>)
    /\ UNCHANGED synth
    /\ UNCHANGED << plan, tool_results, urls_to_scrape, search_results,
                    scrape_results, invocations >>

\* elif tool_name == 'data_analysis', with text to analyze
DataAnalysis ==
    /\ AtStage("data_analysis")
    /\ TextToAnalyze(tool_results) # <<>>
    /\ InvokeOnce("data_analysis",
                  [text |-> TextToAnalyze(tool_results), create_chart |-> TRUE])

\* elif tool_name == 'data_analysis', with nothing to analyze
DataAnalysisSkipped ==
    /\ AtStage("data_analysis")
    /\ TextToAnalyze(tool_results) = <<>>
    /\ SkipStage

\* elif tool_name == 'summarizer', with text to summarize
Summarizer ==
    /\ AtStage("summarizer")
    /\ TextToSummarize(tool_results) # <<>>
    /\ InvokeOnce("summarizer",
                  [text |-> Take(TextToSummarize(tool_results), BUFFER_LIMIT),
                   max_length |-> SUMMARY_MAX_LENGTH, style |-> "concise"])

\* elif tool_name == 'summarizer', with nothing to summarize
SummarizerSkipped ==
    /\ AtStage("summarizer")
    /\ TextToSummarize(tool_results) = <<>>
    /\ SkipStage

\* else: generic tool execution, self.execute_tool(tool_name)
GenericStage ==
    /\ pc = "loop"
    /\ stage <= Len(tool_sequence)
    /\ tool_sequence[stage] \notin {"web_search", "scraper", "data_analysis", "summarizer"}
    /\ InvokeOnce(tool_sequence[stage], [none |-> TRUE])

\* return all_results
Return ==
    /\ pc = "loop"
    /\ stage > Len(tool_sequence)
    /\ pc' = "done"
    /\ UNCHANGED synth
    /\ UNCHANGED << plan, stage, pos, tool_results, errors, success, urls_to_scrape,
                    search_results, scrape_results, invocations >>

Next ==
    \/ BeginWebSearch
    \/ SearchQuery
    \/ EndWebSearch
    \/ BeginScraper
    \/ ScrapeUrl
    \/ EndScraper
    \/ DataAnalysis
    \/ DataAnalysisSkipped
    \/ Summarizer
    \/ SummarizerSkipped
    \/ GenericStage
    \/ Return

Spec == Init /\ [][Next]_vars

----------------------------------------------------------------------------
(* The summarizer stage of execute_plan on pages of every length: the run   *)
(* is taken up at the head of the loop, in front of the summarizer stage,   *)
(* with the log as one search and a scraper stage per scrape left it.       *)

\* a page text of n characters
PageOfLength(n) == [i \in 1..n |-> << "a", "b", "c" >>[(i % 3) + 1]]

\* the lengths of the pages: empty, short, at and over the limit of one
\* text, over the limit of the buffer
PageLengths == { 0, 5, PER_TEXT_LIMIT, PER_TEXT_LIMIT + 1, BUFFER_LIMIT + 500 }

\* the entries execute_tool('scraper', url=...) leaves in the log
ScrapedEntries ==
    { ExecuteTool("scraper", [url |-> "https://a.org"], o) :
        o \in { Raised(m) : m \in ExceptionMessages }
              \cup { Returned([url |-> "https://a.org", title |-> "Page",
                               text |-> PageOfLength(n), length |-> n,
                               success |-> TRUE]) : n \in PageLengths } }

\* the entry of the search that found the url
SearchedEntry ==
    ExecuteTool("web_search", [query |-> "q1"],
                Returned([results |-> Take(ItemPool, 1), query |-> "q1",
                          total_results |-> 1]))

InitSummary ==
    \E scraped \in SeqsUpTo(ScrapedEntries, MaxScraped) :
        /\ plan = [query |-> "Q", sub_questions |-> Take(QuestionNames, 1),
                   tool_sequence |-> << "web_search" >>
                                     \o [k \in 1..Len(scraped) |-> "scraper"]
                                     \o << "summarizer" >>,
                   reasoning |-> "r", success |-> TRUE]
        /\ pc = "loop"
        /\ stage = Len(scraped) + 2
        /\ pos = 1
        /\ tool_results = << SearchedEntry >> \o scraped
        /\ errors = <<>>
        /\ success = TRUE
        /\ urls_to_scrape = << "https://a.org" >>
        /\ search_results = << SearchedEntry >>
        /\ scrape_results = IF scraped = <<>> THEN <<>>
                            ELSE << scraped[Len(scraped)] >>
        /\ invocations = <<>>
        /\ query = << "Q" >>
        /\ report = NoReport
        /\ generation = NoGeneration
        /\ research_result = NoResult
        /\ planning = NoPlanning
        /\ Apart

NextSummary ==
    \/ Summarizer
    \/ SummarizerSkipped
    \/ Return

SpecSummary == InitSummary /\ [][NextSummary]_vars

----------------------------------------------------------------------------
(* Synthesizer.generate_report on the log execute_plan returned *)

\* report = self.synthesizer.generate_report(query, plan, tool_results)
GenerateReport ==
    /\ pc = "done"
    /\ \E outcome \in GenerateOutcomes :
         /\ report' = Report(query, tool_results, outcome)
         /\ generation' = [context |-> BuildContext(tool_results), outcome |-> outcome]
    /\ pc' = "reported"
    /\ UNCHANGED << plan, stage, pos, tool_results, errors, success, urls_to_scrape,
                    search_results, scrape_results, invocations, query, research_result,
                    planning, apart >>

\* the search entries of the log: one item; four items (the cache of an
\* earlier search with a larger max_results), among them a url already
\* found under another title, the same url with a slash, an empty title and
\* an empty url; a search that raised
ReportSearches ==
    { ExecuteTool("web_search", [query |-> "q1"],
                  Returned([results |-> << [title |-> "A", url |-> "https://a.org"] >>,
                            query |-> "q1", total_results |-> 1])),
      ExecuteTool("web_search", [query |-> "q2"],
                  Returned([results |-> << [title |-> "B", url |-> "https://a.org"],
                                           [title |-> "D", url |-> ""],
                                           [title |-> "E", url |-> "https://a.org/"],
                                           [title |-> "", url |-> "https://b.org"] >>,
                            query |-> "q2", total_results |-> 4])) }
    \cup { ExecuteTool("web_search", [query |-> "q3"], Raised(m)) : m \in ExceptionMessages }

\* the scraper entries of the log: a page longer than the context takes, a
\* short page without a title, a scrape that raised
ReportPages ==
    { ExecuteTool("scraper", [url |-> "https://a.org"],
                  Returned([url |-> "https://a.org", title |-> "Page",
                            text |-> PageOfLength(CONTEXT_TEXT_LIMIT + 1),
                            length |-> CONTEXT_TEXT_LIMIT + 1, success |-> TRUE])),
      ExecuteTool("scraper", [url |-> "https://b.org"],
                  Returned([url |-> "https://b.org", title |-> "",
                            text |-> PageOfLength(5), length |-> 5, success |-> TRUE])) }
    \cup { ExecuteTool("scraper", [url |-> "https://a.org"], Raised(m))
            : m \in ExceptionMessages }

AnalysisEntry(count) ==
    ExecuteTool("data_analysis", [text |-> <<>>],
                Returned([extracted_data |-> [count |-> count], chart |-> count > 0]))

\* the entries the later stages leave: none; one analysis; two analyses and
\* a summary; a failed analysis, a calculation and an unknown tool
ReportTails ==
    { <<>>,
      << AnalysisEntry(12) >>,
      << AnalysisEntry(12), AnalysisEntry(0),
         ExecuteTool("summarizer", [text |-> <<>>],
                     Returned([summary |-> << "s" >>, success |-> TRUE])) >> }
    \cup { << ExecuteTool("data_analysis", [text |-> <<>>], Raised(m)),
              ExecuteTool("calculator", [none |-> TRUE],
                          Returned([expression |-> "", result |-> "None",
                                    success |-> FALSE,
                                    error |-> <<"Expression contains invalid characters">>])),
              ExecuteTool("translator", [none |-> TRUE], Returned("no call")) >>
            : m \in ExceptionMessages }

\* the urls the searches put into the accumulator
RECURSIVE UrlsOf(_)
UrlsOf(results) ==
    IF results = <<>> THEN <<>> ELSE CollectUrls(Head(results)) \o UrlsOf(Tail(results))

\* the errors entries the error checks of the later stages left
RECURSIVE ErrorsOf(_)
ErrorsOf(results) ==
    IF results = <<>> THEN <<>>
    ELSE StageErrors(Head(results).tool, Head(results)) \o ErrorsOf(Tail(results))

\* execute_plan has returned: one web_search stage, a scraper stage per
\* scrape, then the later stages
InitReport ==
    \E searches \in SeqsUpTo(ReportSearches, MaxSearched),
       pages \in SeqsUpTo(ReportPages, CONTEXT_PAGES + 1),
       tail \in ReportTails :
        /\ plan = [query |-> "Q", sub_questions |-> Take(QuestionNames, Len(searches)),
                   tool_sequence |-> << "web_search" >>
                                     \o [k \in 1..Len(pages) |-> "scraper"]
                                     \o [k \in 1..Len(tail) |-> tail[k].tool],
                   reasoning |-> "r", success |-> TRUE]
        /\ pc = "done"
        /\ stage = Len(pages) + Len(tail) + 2
        /\ pos = 1
        /\ tool_results = searches \o pages \o tail
        /\ errors = ErrorsOf(tail)
        /\ success = TRUE
        /\ urls_to_scrape = UrlsOf(searches)
        /\ search_results = searches
        /\ scrape_results = <<>>
        /\ invocations = <<>>
        /\ query = << "Q" >>
        /\ report = NoReport
        /\ generation = NoGeneration
        /\ research_result = NoResult
        /\ planning = NoPlanning
        /\ Apart

NextReport == GenerateReport

SpecReport == InitReport /\ [][NextReport]_vars

----------------------------------------------------------------------------
(* ResearchAgent.research: similarity check, Planner.create_plan,            *)
(* execute_plan, generate_report, the optional PDF, the similarity index     *)

QUERY_LIMIT == 500
MIN_SUB_QUESTIONS == 3

\* query.split()
RECURSIVE SplitWords(_, _)
SplitWords(s, word) ==
    IF s = <<>> THEN (IF word = <<>> THEN <<>> ELSE << word >>)
    ELSE IF IsSpace(Head(s))
         THEN (IF word = <<>> THEN <<>> ELSE << word >>) \o SplitWords(Tail(s), <<>>)
         ELSE SplitWords(Tail(s), Append(word, Head(s)))

\* sanitize_query on a non-empty string
SanitizeQuery(q) == Strip(Take(Join(SplitWords(q, <<>>), << " " >>), QUERY_LIMIT))

WhatIs ==
    << "W", "h", "a", "t", " ", "i", "s", " " >>

KeyAspects ==
    << "W", "h", "a", "t", " ", "a", "r", "e", " ", "t", "h", "e", " ", "k",
       "e", "y", " ", "a", "s", "p", "e", "c", "t", "s", " ", "o", "f", " " >>

RecentDevelopments ==
    << "W", "h", "a", "t", " ", "a", "r", "e", " ", "r", "e", "c", "e", "n",
       "t", " ", "d", "e", "v", "e", "l", "o", "p", "m", "e", "n", "t", "s",
       " ", "r", "e", "g", "a", "r", "d", "i", "n", "g", " " >>

\* the three sub-questions create_plan makes up from the query
DefaultSubQuestions(q) ==
    << WhatIs \o q \o << "?" >>,
       KeyAspects \o q \o << "?" >>,
       RecentDevelopments \o q \o << "?" >> >>

\* the objects self.llm.generate_json parses from the model's answer
PlanJsons ==
    { [sub_questions |-> Take(QuestionNames, 4),
       tool_sequence |-> << "web_search", "scraper", "summarizer" >>,
       reasoning |-> "r"],
      [sub_questions |-> Take(QuestionNames, 4),
       tool_sequence |-> << "web_search", "scraper", "data_analysis" >>,
       reasoning |-> "r"],
      [sub_questions |-> Take(QuestionNames, 1),
       tool_sequence |-> << "calculator", "data_analysis", "translator" >>],
      [sub_questions |-> Take(QuestionNames, 6), tool_sequence |-> <<>>,
       reasoning |-> "r"],
      [reasoning |-> "r"] }

\* self.llm.generate_json(prompt, system_prompt): it raises (the retries
\* give up, or no JSON can be parsed), or an object comes back
PlanOutcomes ==
    { Raised(m) : m \in ExceptionMessages } \cup { Returned(j) : j \in PlanJsons }

\* a fallback plan that carries the default sequence of the try block
PlanFor_ShortFallback(q, outcome) ==
    IF outcome.raised
    THEN [query |-> q, sub_questions |-> DefaultSubQuestions(q),
          tool_sequence |-> << "web_search", "scraper" >>,
          reasoning |-> "Fallback plan due to planning error",
          success |-> FALSE, error |-> outcome.message]
    ELSE LET plan_json == outcome.payload
             given == Get(plan_json, "sub_questions", <<>>)
             sub_questions == IF Len(given) < MIN_SUB_QUESTIONS
                              THEN DefaultSubQuestions(q) ELSE given
             sequence == Get(plan_json, "tool_sequence", << "web_search", "scraper" >>)
         IN  [query |-> q,
              sub_questions |-> Take(sub_questions, MAX_SUB_QUESTIONS),
              tool_sequence |-> IF sequence = <<>> THEN << "web_search", "scraper" >>
                                ELSE sequence,
              reasoning |-> Get(plan_json, "reasoning", "Standard research plan"),
              success |-> TRUE]

\* a plan that takes the model's answer as it comes
PlanFor_Unchecked(q, outcome) ==
    IF outcome.raised
    THEN [query |-> q, sub_questions |-> DefaultSubQuestions(q),
          tool_sequence |-> << "web_search", "scraper", "summarizer" >>,
          reasoning |-> "Fallback plan due to planning error",
          success |-> FALSE, error |-> outcome.message]
    ELSE LET plan_json == outcome.payload
         IN  [query |-> q,
              sub_questions |-> Get(plan_json, "sub_questions", <<>>),
              tool_sequence |-> Get(plan_json, "tool_sequence", <<>>),
              reasoning |-> Get(plan_json, "reasoning", "Standard research plan"),
              success |-> TRUE]

\* what create_plan returns for the sanitized query q
PlanFor(q, outcome) ==
    IF outcome.raised
    THEN [query |-> q, sub_questions |-> DefaultSubQuestions(q),
          tool_sequence |-> << "web_search", "scraper", "summarizer" >>,
          reasoning |-> "Fallback plan due to planning error",
          success |-> FALSE, error |-> outcome.message]
    ELSE LET plan_json == outcome.payload
             given == Get(plan_json, "sub_questions", <<>>)
             sub_questions == IF Len(given) < MIN_SUB_QUESTIONS
                              THEN DefaultSubQuestions(q) ELSE given
             sequence == Get(plan_json, "tool_sequence", << "web_search", "scraper" >>)
         IN  [query |-> q,
              sub_questions |-> Take(sub_questions, MAX_SUB_QUESTIONS),
              tool_sequence |-> IF sequence = <<>> THEN << "web_search", "scraper" >>
                                ELSE sequence,
              reasoning |-> Get(plan_json, "reasoning", "Standard research plan"),
              success |-> TRUE]

\* the queries research is called with: the empty string, and a query with
\* blanks around and between its words
ResearchQueries == { <<>>, << " ", "Q", " ", " ", "R", " " >> }

\* similar[0].get('distance', 1.0) < 0.3, in hundredths
SIMILARITY_THRESHOLD == 30

\* self.vector_store.search(query, n_results=1): the empty list (nothing
\* stored, or the index raised) or the nearest entry with its distance, in
\* hundredths; the distance None of a query result that has no 'distances'
\* is the empty tuple
SimilarOutcomes ==
    { <<>>, << [distance |-> << 10 >>] >>, << [distance |-> << 90 >>] >>,
      << [distance |-> <<>>] >> }

\* if similar and similar[0].get('distance', 1.0) < 0.3: the key is there,
\* so the default is not taken, and None < 0.3 is a TypeError
SimilarityCheck(similar) ==
    IF similar = <<>> THEN "miss"
    ELSE IF similar[1].distance = <<>> THEN "raised"
    ELSE IF similar[1].distance[1] < SIMILARITY_THRESHOLD THEN "hit"
    ELSE "miss"

\* synthesizer.markdown_to_pdf(markdown): a file, or the error it caught
PdfOutcomes ==
    { [success |-> TRUE, path |-> "report.pdf"], [success |-> FALSE, error |-> << "pdf" >>] }

NoPlan == [none |-> TRUE]
NoPdf == [none |-> TRUE]

InitResearch ==
    /\ query \in ResearchQueries
    /\ pc = "start"
    /\ plan = NoPlan
    /\ stage = 1
    /\ pos = 1
    /\ tool_results = <<>>
    /\ errors = <<>>
    /\ success = TRUE
    /\ urls_to_scrape = <<>>
    /\ search_results = <<>>
    /\ scrape_results = <<>>
    /\ invocations = <<>>
    /\ report = NoReport
    /\ generation = NoGeneration
    /\ research_result = NoResult
    /\ planning = NoPlanning
    /\ Apart

\* if use_cache: similar = self.vector_store.search(...), whose hit is read
\* and not used; the comparison of the distance is outside every try block
SimilarSearch ==
    /\ pc = "start"
    /\ \E use_cache \in BOOLEAN :
         \E similar \in (IF use_cache THEN SimilarOutcomes ELSE { <<>> }) :
             /\ pc' = IF SimilarityCheck(similar) = "raised" THEN "similar_raised"
                      ELSE "planning"
             /\ index_calls' = IF use_cache
                               THEN Append(index_calls, [op |-> "search", query |-> query,
                                                         returned |-> similar])
                               ELSE index_calls
    /\ UNCHANGED << plan, stage, pos, tool_results, errors, success, urls_to_scrape,
                    search_results, scrape_results, invocations, query, report,
                    generation, research_result, planning, beside_index >>

\* plan = self.planner.create_plan(query): sanitize_query raises on the
\* empty query, ahead of the try block, and research does not catch it;
\* then execute_plan starts on the plan
CreatePlan ==
    /\ pc = "planning"
    /\ IF query = <<>>
       THEN /\ pc' = "raised"
            /\ plan' = plan
            /\ planning' = [query |-> query, called |-> FALSE]
       ELSE /\ \E outcome \in PlanOutcomes :
                 /\ plan' = PlanFor(SanitizeQuery(query), outcome)
                 /\ planning' = [query |-> query, called |-> TRUE, outcome |-> outcome]
            /\ pc' = "loop"
    /\ UNCHANGED << stage, pos, tool_results, errors, success, urls_to_scrape,
                    search_results, scrape_results, invocations, query, report,
                    generation, research_result, apart >>

\* the PDF when asked for, the add to the similarity index, whose failure
\* is passed over, and the return
FinishResearch ==
    /\ pc = "reported"
    /\ \E generate_pdf \in BOOLEAN :
         \E pdf \in (IF generate_pdf THEN PdfOutcomes ELSE { NoPdf }) :
             research_result' = [query |-> query, plan |-> plan, tool_results |-> tool_results,
                                 report |-> report, pdf |-> pdf, success |-> TRUE]
    /\ \E stored \in BOOLEAN :
         index_calls' = Append(index_calls, [op |-> "add", query |-> query,
                                             stored |-> stored])
    /\ pc' = "returned"
    /\ UNCHANGED << plan, stage, pos, tool_results, errors, success, urls_to_scrape,
                    search_results, scrape_results, invocations, query, report,
                    generation, planning, beside_index >>

NextResearch ==
    \/ SimilarSearch
    \/ CreatePlan
    \/ BeginWebSearch
    \/ SearchQuery
    \/ EndWebSearch
    \/ BeginScraper
    \/ ScrapeUrl
    \/ EndScraper
    \/ DataAnalysis
    \/ DataAnalysisSkipped
    \/ Summarizer
    \/ SummarizerSkipped
    \/ GenericStage
    \/ Return
    \/ GenerateReport
    \/ FinishResearch

SpecResearch == InitResearch /\ [][NextResearch]_vars

----------------------------------------------------------------------------
(* ResearchAgent.research_streaming, the generator behind POST               *)
(* /agent/research: every yield is passed on as one update of the stream,    *)
(* and generate() closes the stream with [DONE] once the generator is        *)
(* exhausted. An exception in the generator ends the stream where it is.     *)

\* {'step': step, 'status': status}
Update(step, status) == [step |-> step, status |-> status]

\* {'step': step, 'status': 'completed', 'data': data}
CompletedUpdate(step, data) == [step |-> step, status |-> "completed", data |-> data]

\* the line "data: [DONE]" of generate()
DoneLine == [done |-> TRUE]

\* all_results as execute_plan returns it
ExecutionResults ==
    [plan |-> plan, tool_results |-> tool_results, success |-> success, errors |-> errors]

\* the tool_result updates yielded so far
ToolResultUpdates == SelectSeq(events, LAMBDA e : Get(e, "step", "") = "tool_result")

InitStreaming ==
    /\ query \in ResearchQueries
    /\ pc = "stream"
    /\ \E use_cache \in BOOLEAN : request = [endpoint |-> "stream", use_cache |-> use_cache]
    /\ plan = NoPlan
    /\ stage = 1
    /\ pos = 1
    /\ tool_results = <<>>
    /\ errors = <<>>
    /\ success = TRUE
    /\ urls_to_scrape = <<>>
    /\ search_results = <<>>
    /\ scrape_results = <<>>
    /\ invocations = <<>>
    /\ report = NoReport
    /\ generation = NoGeneration
    /\ research_result = NoResult
    /\ planning = NoPlanning
    /\ parked = NoFrame
    /\ running = 1
    /\ scrape = NoScrape
    /\ cache_file = NoFile
    /\ clock = 0
    /\ cache_calls = NoCalls
    /\ index_calls = <<>>
    /\ events = <<>>

\* yield {'step': 'planning', 'status': 'in_progress'}
StreamBegin ==
    /\ pc = "stream"
    /\ events' = Append(events, Update("planning", "in_progress"))
    /\ pc' = "stream_planning"
    /\ UNCHANGED << plan, stage, pos, tool_results, errors, success, urls_to_scrape,
                    search_results, scrape_results, invocations, query, report,
                    generation, research_result, planning, beside_events >>

\* plan = self.planner.create_plan(query), which raises on the empty query
\* and ends the generator; else yield the completed planning with the plan
StreamPlan ==
    /\ pc = "stream_planning"
    /\ IF query = <<>>
       THEN /\ pc' = "stream_raised"
            /\ plan' = plan
            /\ planning' = [query |-> query, called |-> FALSE]
            /\ events' = events
       ELSE /\ \E outcome \in PlanOutcomes :
                 /\ plan' = PlanFor(SanitizeQuery(query), outcome)
                 /\ planning' = [query |-> query, called |-> TRUE, outcome |-> outcome]
                 /\ events' = Append(events,
                                     CompletedUpdate("planning",
                                                     PlanFor(SanitizeQuery(query), outcome)))
            /\ pc' = "stream_planned"
    /\ UNCHANGED << stage, pos, tool_results, errors, success, urls_to_scrape,
                    search_results, scrape_results, invocations, query, report,
                    generation, research_result, beside_events >>

\* yield {'step': 'execution', 'status': 'in_progress'}, then execute_plan
\* starts on the plan
StreamExecute ==
    /\ pc = "stream_planned"
    /\ events' = Append(events, Update("execution", "in_progress"))
    /\ pc' = "loop"
    /\ UNCHANGED << plan, stage, pos, tool_results, errors, success, urls_to_scrape,
                    search_results, scrape_results, invocations, query, report,
                    generation, research_result, planning, beside_events >>

\* for tool_result in execution_results.get('tool_results', []): yield it
StreamToolResult ==
    /\ pc = "done"
    /\ request # NoRequest /\ request.endpoint = "stream"
    /\ Len(ToolResultUpdates) < Len(tool_results)
    /\ events' = Append(events, [step |-> "tool_result",
                                 data |-> tool_results[Len(ToolResultUpdates) + 1]])
    /\ UNCHANGED << plan, pc, stage, pos, tool_results, errors, success, urls_to_scrape,
                    search_results, scrape_results, invocations, query, report,
                    generation, research_result, planning, beside_events >>

\* yield {'step': 'execution', 'status': 'completed', 'data': execution_results}
StreamExecuted ==
    /\ pc = "done"
    /\ request # NoRequest /\ request.endpoint = "stream"
    /\ Len(ToolResultUpdates) = Len(tool_results)
    /\ events' = Append(events, CompletedUpdate("execution", ExecutionResults))
    /\ pc' = "stream_executed"
    /\ UNCHANGED << plan, stage, pos, tool_results, errors, success, urls_to_scrape,
                    search_results, scrape_results, invocations, query, report,
                    generation, research_result, planning, beside_events >>

\* yield {'step': 'synthesis', 'status': 'in_progress'}
StreamSynthesis ==
    /\ pc = "stream_executed"
    /\ events' = Append(events, Update("synthesis", "in_progress"))
    /\ pc' = "stream_synthesis"
    /\ UNCHANGED << plan, stage, pos, tool_results, errors, success, urls_to_scrape,
                    search_results, scrape_results, invocations, query, report,
                    generation, research_result, planning, beside_events >>

\* a stream that writes its report for the query of the plan
StreamReport_PlanQuery ==
    /\ pc = "stream_synthesis"
    /\ \E outcome \in GenerateOutcomes :
         /\ report' = Report(plan.query, tool_results, outcome)
         /\ generation' = [context |-> BuildContext(tool_results), outcome |-> outcome]
         /\ events' = Append(events,
                             CompletedUpdate("synthesis",
                                             Report(plan.query, tool_results, outcome)))
    /\ pc' = "stream_synthesized"
    /\ UNCHANGED << plan, stage, pos, tool_results, errors, success, urls_to_scrape,
                    search_results, scrape_results, invocations, query, research_result,
                    planning, beside_events >>

\* report = self.synthesizer.generate_report(query, plan, tool_results) and
\* the yield of the completed synthesis with the report
StreamReport ==
    /\ pc = "stream_synthesis"
    /\ \E outcome \in GenerateOutcomes :
         /\ report' = Report(query, tool_results, outcome)
         /\ generation' = [context |-> BuildContext(tool_results), outcome |-> outcome]
         /\ events' = Append(events,
                             CompletedUpdate("synthesis",
                                             Report(query, tool_results, outcome)))
    /\ pc' = "stream_synthesized"
    /\ UNCHANGED << plan, stage, pos, tool_results, errors, success, urls_to_scrape,
                    search_results, scrape_results, invocations, query, research_result,
                    planning, beside_events >>

\* the final yield: step 'complete' with query, plan, tool_results, report
StreamComplete ==
    /\ pc = "stream_synthesized"
    /\ events' = Append(events, [step |-> "complete", query |-> query, plan |-> plan,
                                 tool_results |-> tool_results, report |-> report,
                                 success |-> TRUE])
    /\ pc' = "stream_complete"
    /\ UNCHANGED << plan, stage, pos, tool_results, errors, success, urls_to_scrape,
                    search_results, scrape_results, invocations, query, report,
                    generation, research_result, planning, beside_events >>

\* the generator is exhausted: generate() yields "data: [DONE]"
StreamDone ==
    /\ pc = "stream_complete"
    /\ events' = Append(events, DoneLine)
    /\ pc' = "stream_done"
    /\ UNCHANGED << plan, stage, pos, tool_results, errors, success, urls_to_scrape,
                    search_results, scrape_results, invocations, query, report,
                    generation, research_result, planning, beside_events >>

NextStreaming ==
    \/ StreamBegin
    \/ StreamPlan
    \/ StreamExecute
    \/ BeginWebSearch
    \/ SearchQuery
    \/ EndWebSearch
    \/ BeginScraper
    \/ ScrapeUrl
    \/ EndScraper
    \/ DataAnalysis
    \/ DataAnalysisSkipped
    \/ Summarizer
    \/ SummarizerSkipped
    \/ GenericStage
    \/ Return
    \/ StreamToolResult
    \/ StreamExecuted
    \/ StreamSynthesis
    \/ StreamReport
    \/ StreamComplete
    \/ StreamDone

SpecStreaming == InitStreaming /\ [][NextStreaming]_vars

----------------------------------------------------------------------------
(* research_streaming and research on the same query with the same answers   *)
(* of their collaborators: the stream runs to its end, then research is      *)
(* called with the query of the stream, and the planner's model, the tools   *)
(* and the report model answer research as they answered the stream.         *)

\* what the stream leaves behind for the comparison: its use_cache and the
\* answers its collaborators gave
StreamRecord ==
    [use_cache |-> request.use_cache, planning |-> planning,
     invocations |-> invocations, generation |-> generation]

\* the collaborators answer the second call as they answered the first
SameResponses ==
    \/ parked = NoFrame
    \/ /\ planning # NoPlanning => planning = parked.planning
       /\ Len(invocations) <= Len(parked.invocations)
       /\ \A k \in 1..Len(invocations) :
             invocations[k].outcome = parked.invocations[k].outcome
       /\ generation # NoGeneration => generation.outcome = parked.generation.outcome

\* the stream has sent its complete update and [DONE]; research is called
\* with the same query on the same agent
StartResearch ==
    /\ pc = "stream_done"
    /\ parked = NoFrame
    /\ parked' = StreamRecord
    /\ request' = NoRequest
    /\ pc' = "start"
    /\ plan' = NoPlan
    /\ stage' = 1
    /\ pos' = 1
    /\ tool_results' = <<>>
    /\ errors' = <<>>
    /\ success' = TRUE
    /\ urls_to_scrape' = <<>>
    /\ search_results' = <<>>
    /\ scrape_results' = <<>>
    /\ invocations' = <<>>
    /\ report' = NoReport
    /\ generation' = NoGeneration
    /\ research_result' = NoResult
    /\ planning' = NoPlanning
    /\ UNCHANGED << query, running, scrape, cache_file, clock, cache_calls, index_calls,
                    events >>

NextBoth ==
    \/ StreamBegin
    \/ StreamPlan
    \/ StreamExecute
    \/ BeginWebSearch
    \/ SearchQuery /\ SameResponses'
    \/ EndWebSearch
    \/ BeginScraper
    \/ ScrapeUrl /\ SameResponses'
    \/ EndScraper
    \/ DataAnalysis /\ SameResponses'
    \/ DataAnalysisSkipped
    \/ Summarizer /\ SameResponses'
    \/ SummarizerSkipped
    \/ GenericStage /\ SameResponses'
    \/ Return
    \/ StreamToolResult
    \/ StreamExecuted
    \/ StreamSynthesis
    \/ StreamReport
    \/ StreamComplete
    \/ StreamDone
    \/ StartResearch
    \/ SimilarSearch
    \/ CreatePlan /\ SameResponses'
    \/ GenerateReport /\ request = NoRequest /\ SameResponses'
    \/ FinishResearch

SpecBoth == InitStreaming /\ [][NextBoth]_vars

----------------------------------------------------------------------------
(* Two research runs on the one ResearchAgent of the server: each request    *)
(* runs agent.research in a thread of its own, and the two execute_plan      *)
(* calls are interleaved step by step.                                       *)

\* the frame of the running execute_plan call: its arguments and locals,
\* with the history of its invocations
Frame ==
    [plan |-> plan, pc |-> pc, stage |-> stage, pos |-> pos,
     tool_results |-> tool_results, errors |-> errors, success |-> success,
     urls_to_scrape |-> urls_to_scrape, search_results |-> search_results,
     scrape_results |-> scrape_results, invocations |-> invocations]

\* the frame of a call that has just been entered
EntryFrame(p) ==
    [plan |-> p, pc |-> "loop", stage |-> 1, pos |-> 1, tool_results |-> <<>>,
     errors |-> <<>>, success |-> TRUE, urls_to_scrape |-> <<>>,
     search_results |-> <<>>, scrape_results |-> <<>>, invocations |-> <<>>]

\* the plans of the two runs
RunPlans ==
    << [query |-> "Q1", sub_questions |-> << "q1" >>,
        tool_sequence |-> << "web_search", "scraper", "summarizer" >>,
        reasoning |-> "r", success |-> TRUE],
       [query |-> "Q2", sub_questions |-> << "q2" >>,
        tool_sequence |-> << "calculator", "web_search", "scraper", "data_analysis" >>,
        reasoning |-> "r", success |-> TRUE] >>

\* an accumulator kept on the executor, which both threads see
ResumedUrls_Shared(frame) == urls_to_scrape

\* urls_to_scrape is a local of the call: the thread finds it as it left it
ResumedUrls(frame) == frame.urls_to_scrape

InitRuns ==
    /\ plan = RunPlans[1]
    /\ pc = "loop"
    /\ stage = 1
    /\ pos = 1
    /\ tool_results = <<>>
    /\ errors = <<>>
    /\ success = TRUE
    /\ urls_to_scrape = <<>>
    /\ search_results = <<>>
    /\ scrape_results = <<>>
    /\ invocations = <<>>
    /\ query = << "Q" >>
    /\ report = NoReport
    /\ generation = NoGeneration
    /\ research_result = NoResult
    /\ planning = NoPlanning
    /\ parked = EntryFrame(RunPlans[2])
    /\ running = 1
    /\ request = NoRequest
    /\ scrape = NoScrape
    /\ cache_file = NoFile
    /\ clock = 0
    /\ cache_calls = NoCalls
    /\ index_calls = <<>>
    /\ events = <<>>

\* the scheduler takes the processor from the running thread and gives it
\* to the other one, which goes on in its own frame
Switch ==
    /\ parked # NoFrame
    /\ parked.pc # "done"
    /\ parked' = Frame
    /\ running' = 3 - running
    /\ plan' = parked.plan
    /\ pc' = parked.pc
    /\ stage' = parked.stage
    /\ pos' = parked.pos
    /\ tool_results' = parked.tool_results
    /\ errors' = parked.errors
    /\ success' = parked.success
    /\ urls_to_scrape' = ResumedUrls(parked)
    /\ search_results' = parked.search_results
    /\ scrape_results' = parked.scrape_results
    /\ invocations' = parked.invocations
    /\ UNCHANGED << query, report, generation, research_result, planning, request,
                    scrape, cache_file, clock, cache_calls, index_calls, events >>

NextRuns ==
    \/ BeginWebSearch
    \/ SearchQuery
    \/ EndWebSearch
    \/ BeginScraper
    \/ ScrapeUrl
    \/ EndScraper
    \/ DataAnalysis
    \/ DataAnalysisSkipped
    \/ Summarizer
    \/ SummarizerSkipped
    \/ GenericStage
    \/ Return
    \/ Switch

SpecRuns == InitRuns /\ [][NextRuns]_vars

----------------------------------------------------------------------------
(* The HTTP boundary: POST /agent/research streams the updates of            *)
(* research_streaming, POST /agent/research/sync awaits agent.research in a  *)
(* thread under asyncio.wait_for. Time is counted in seconds.                *)

\* timeout=540.0 of asyncio.wait_for
REQUEST_DEADLINE == 540

\* how much time passes in one step, and how long a run is followed
TimeStep == REQUEST_DEADLINE \div 3
LongestRun == 2 * REQUEST_DEADLINE

Endpoints == { "sync", "stream" }

\* the steps of a run, in order: research and research_streaming both plan,
\* execute and synthesize
RunPhases == << "planning", "execution", "synthesis", "returned" >>

\* the phase after ph
PhaseAfter(ph) ==
    CHOOSE next \in { RunPhases[i] : i \in 1..Len(RunPhases) } :
        \E i \in 1..(Len(RunPhases) - 1) : RunPhases[i] = ph /\ RunPhases[i + 1] = next

\* the updates research_streaming yields between the start of phase ph and
\* the start of the next one
YieldedIn(ph) ==
    CASE ph = "planning" -> << "planning in_progress", "planning completed" >>
      [] ph = "execution" -> << "execution in_progress", "tool_result",
                                "execution completed" >>
      [] ph = "synthesis" -> << "synthesis in_progress", "synthesis completed",
                                "complete" >>
      [] OTHER -> <<>>

InitRequest ==
    /\ \E endpoint \in Endpoints, use_cache, generate_pdf \in BOOLEAN :
         request = [endpoint |-> endpoint, use_cache |-> use_cache,
                    generate_pdf |-> generate_pdf, elapsed |-> 0, run |-> "planning",
                    events |-> <<>>, response |-> "pending"]
    /\ plan = NoPlan
    /\ pc = "start"
    /\ stage = 1
    /\ pos = 1
    /\ tool_results = <<>>
    /\ errors = <<>>
    /\ success = TRUE
    /\ urls_to_scrape = <<>>
    /\ search_results = <<>>
    /\ scrape_results = <<>>
    /\ invocations = <<>>
    /\ query = << "Q" >>
    /\ report = NoReport
    /\ generation = NoGeneration
    /\ research_result = NoResult
    /\ planning = NoPlanning
    /\ parked = NoFrame
    /\ running = 1
    /\ scrape = NoScrape
    /\ cache_file = NoFile
    /\ clock = 0
    /\ cache_calls = NoCalls
    /\ index_calls = <<>>
    /\ events = <<>>

boundary_frame == << plan, pc, stage, pos, tool_results, errors, success, urls_to_scrape,
                     search_results, scrape_results, invocations, query, report,
                     generation, research_result, planning, parked, running, scrape,
                     cache_file, clock, cache_calls, index_calls, events >>

\* time passes while the caller waits; the timer of wait_for goes off at
\* the deadline, so the sync handler does not wait beyond it
TimePasses ==
    /\ request.response = "pending"
    /\ request.elapsed < LongestRun
    /\ request.endpoint = "sync" => request.elapsed < REQUEST_DEADLINE
    /\ request' = [request EXCEPT !.elapsed = @ + TimeStep]
    /\ UNCHANGED boundary_frame

\* the run completes a step; the stream passes on what the step yields
RunAdvances ==
    /\ request.run \notin { "returned", "raised" }
    /\ request.endpoint = "stream" => request.response = "pending"
    /\ request' = [request EXCEPT
                      !.run = PhaseAfter(@),
                      !.events = IF request.endpoint = "stream"
                                 THEN @ \o YieldedIn(request.run) ELSE @]
    /\ UNCHANGED boundary_frame

\* the run raises (research does so on an empty query)
RunRaises ==
    /\ request.run \notin { "returned", "raised" }
    /\ request.endpoint = "stream" => request.response = "pending"
    /\ request' = [request EXCEPT !.run = "raised"]
    /\ UNCHANGED boundary_frame

\* research_sync: wait_for hands over what the thread returned, or the
\* handler turns the exception into a 500
SyncAnswers ==
    /\ request.endpoint = "sync"
    /\ request.response = "pending"
    /\ request.run \in { "returned", "raised" }
    /\ request' = [request EXCEPT
                      !.response = IF request.run = "returned" THEN "result" ELSE "error"]
    /\ UNCHANGED boundary_frame

\* research_sync: asyncio.TimeoutError becomes the 504 answer; the thread
\* goes on running
SyncTimesOut ==
    /\ request.endpoint = "sync"
    /\ request.response = "pending"
    /\ request.run \notin { "returned", "raised" }
    /\ request.elapsed >= REQUEST_DEADLINE
    /\ request' = [request EXCEPT !.response = "timeout"]
    /\ UNCHANGED boundary_frame

\* research: the generator is exhausted and [DONE] closes the stream, or it
\* raised and the stream breaks off; nothing else ends the stream
StreamEnds ==
    /\ request.endpoint = "stream"
    /\ request.response = "pending"
    /\ request.run \in { "returned", "raised" }
    /\ request' = [request EXCEPT
                      !.response = IF request.run = "returned" THEN "result" ELSE "error"]
    /\ UNCHANGED boundary_frame

NextRequest ==
    \/ TimePasses
    \/ RunAdvances
    \/ RunRaises
    \/ SyncAnswers
    \/ SyncTimesOut
    \/ StreamEnds

SpecRequest == InitRequest /\ [][NextRequest]_vars

----------------------------------------------------------------------------
(* POST /agent/research/sync in full: agent.research runs in a worker thread *)
(* of asyncio.to_thread while the handler awaits it under wait_for; a later  *)
(* request starts its own run on the same agent in another thread.           *)

\* the plan of the later request's run
LaterPlan ==
    PlanFor(<< "L" >>,
            Returned([sub_questions |-> Take(QuestionNames, 1),
                      tool_sequence |-> << "calculator" >>]))

\* the call of research in the first thread is over
ResearchOver == running = 1 /\ pc \in { "returned", "raised", "similar_raised" }

\* the request is followed from the call of create_plan on, with use_cache
\* false, so that the index was not searched
InitDeadline ==
    /\ query \in ResearchQueries
    /\ pc = "planning"
    /\ request = [endpoint |-> "sync", use_cache |-> FALSE, elapsed |-> 0,
                  response |-> "pending", invoked |-> 0]
    /\ plan = NoPlan
    /\ stage = 1
    /\ pos = 1
    /\ tool_results = <<>>
    /\ errors = <<>>
    /\ success = TRUE
    /\ urls_to_scrape = <<>>
    /\ search_results = <<>>
    /\ scrape_results = <<>>
    /\ invocations = <<>>
    /\ report = NoReport
    /\ generation = NoGeneration
    /\ research_result = NoResult
    /\ planning = NoPlanning
    /\ parked = NoFrame
    /\ running = 1
    /\ scrape = NoScrape
    /\ cache_file = NoFile
    /\ clock = 0
    /\ cache_calls = NoCalls
    /\ index_calls = <<>>
    /\ events = <<>>

\* a wait_for that cancels the thread with the awaiting task
WaitForTimesOut_Cancels ==
    /\ request.response = "pending"
    /\ request.elapsed >= REQUEST_DEADLINE
    /\ ~ResearchOver
    /\ request' = [request EXCEPT !.response = "timeout", !.invoked = Len(invocations)]
    /\ pc' = "cancelled"
    /\ UNCHANGED << plan, stage, pos, tool_results, errors, success, urls_to_scrape,
                    search_results, scrape_results, invocations, query, report,
                    generation, research_result, planning, parked, running, scrape,
                    cache_file, clock, cache_calls, index_calls, events >>

\* except asyncio.TimeoutError: raise HTTPException(504); wait_for cancels
\* the future it awaits, which does not reach the function running in the
\* thread
WaitForTimesOut ==
    /\ request.response = "pending"
    /\ request.elapsed >= REQUEST_DEADLINE
    /\ ~ResearchOver
    /\ request' = [request EXCEPT !.response = "timeout", !.invoked = Len(invocations)]
    /\ UNCHANGED boundary_frame

\* results = await asyncio.wait_for(...): the thread's result becomes the
\* JSON response, its exception the 500 answer
WaitForReturns ==
    /\ request.response = "pending"
    /\ ResearchOver
    /\ request' = [request EXCEPT
                      !.response = IF pc = "returned" THEN "result" ELSE "error"]
    /\ UNCHANGED boundary_frame

\* the caller has its answer; a later request is accepted while the first
\* run is under way, and its run starts in a thread of its own on the same
\* agent
LaterRequest ==
    /\ request.response = "timeout"
    /\ parked = NoFrame
    /\ ~ResearchOver
    /\ parked' = EntryFrame(LaterPlan)
    /\ UNCHANGED << plan, pc, stage, pos, tool_results, errors, success, urls_to_scrape,
                    search_results, scrape_results, invocations, query, report,
                    generation, research_result, planning, running, request, scrape,
                    cache_file, clock, cache_calls, index_calls, events >>

\* the scheduler gives the processor to the other thread, unless that is the
\* later run when it has returned
Preempt ==
    /\ parked # NoFrame
    /\ running = 1 => parked.pc # "done"
    /\ parked' = Frame
    /\ running' = 3 - running
    /\ plan' = parked.plan
    /\ pc' = parked.pc
    /\ stage' = parked.stage
    /\ pos' = parked.pos
    /\ tool_results' = parked.tool_results
    /\ errors' = parked.errors
    /\ success' = parked.success
    /\ urls_to_scrape' = ResumedUrls(parked)
    /\ search_results' = parked.search_results
    /\ scrape_results' = parked.scrape_results
    /\ invocations' = parked.invocations
    /\ UNCHANGED << query, report, generation, research_result, planning, request,
                    scrape, cache_file, clock, cache_calls, index_calls, events >>

\* a step of the thread that is running
ThreadStep ==
    \/ CreatePlan
    \/ BeginWebSearch
    \/ SearchQuery
    \/ EndWebSearch
    \/ BeginScraper
    \/ ScrapeUrl
    \/ EndScraper
    \/ DataAnalysis
    \/ DataAnalysisSkipped
    \/ Summarizer
    \/ SummarizerSkipped
    \/ GenericStage
    \/ Return
    \/ GenerateReport /\ running = 1
    \/ FinishResearch

NextDeadline ==
    \/ ThreadStep
    \/ TimePasses
    \/ WaitForTimesOut
    \/ WaitForReturns
    \/ LaterRequest
    \/ Preempt

SpecDeadline == InitDeadline /\ [][NextDeadline]_vars

----------------------------------------------------------------------------
(* WebScraperTool.scrape on urls of every form, character by character:      *)
(* sanitize_url, validate_url with urlparse, the cache lookup and the fetch  *)

StartsWith(s, prefix) == Len(s) >= Len(prefix) /\ SubSeq(s, 1, Len(prefix)) = prefix

HttpPrefix == << "h", "t", "t", "p", ":", "/", "/" >>
HttpsPrefix == << "h", "t", "t", "p", "s", ":", "/", "/" >>
HttpScheme == << "h", "t", "t", "p" >>
HttpsScheme == << "h", "t", "t", "p", "s" >>

UpperLetters == << "A", "B", "C", "D", "E", "F", "G", "H", "I", "J", "K", "L", "M",
       "N", "O", "P", "Q", "R", "S", "T", "U", "V", "W", "X", "Y", "Z" >>
LowerLetters == << "a", "b", "c", "d", "e", "f", "g", "h", "i", "j", "k", "l", "m",
       "n", "o", "p", "q", "r", "s", "t", "u", "v", "w", "x", "y", "z" >>

\* str.lower() on one character
LowerChar(c) ==
    IF \E i \in 1..Len(UpperLetters) : UpperLetters[i] = c
    THEN LowerLetters[CHOOSE i \in 1..Len(UpperLetters) : UpperLetters[i] = c]
    ELSE c

LowerCase(t) == [i \in 1..Len(t) |-> LowerChar(t[i])]

IsLetter(c) == \E i \in 1..Len(UpperLetters) : c = UpperLetters[i] \/ c = LowerLetters[i]

\* scheme_chars of urllib.parse
IsSchemeChar(c) ==
    \/ IsLetter(c)
    \/ c \in { "0", "1", "2", "3", "4", "5", "6", "7", "8", "9", "+", "-", "." }

\* str.find of one character: the index from 1, or 0
RECURSIVE FindChar(_, _, _)
FindChar(t, chars, from) ==
    IF from > Len(t) THEN 0
    ELSE IF t[from] \in chars THEN from
    ELSE FindChar(t, chars, from + 1)

\* urlparse(url): the scheme is what stands before the first colon when it
\* starts with a letter and is made of scheme characters, in lower case; the
\* netloc is what follows a leading // up to the first of / ? #; a netloc
\* with one bracket and not the other raises ValueError
urlparse(url) ==
    LET colon == FindChar(url, { ":" }, 1)
        has_scheme == /\ colon > 1
                      /\ IsLetter(url[1])
                      /\ \A i \in 1..(colon - 1) : IsSchemeChar(url[i])
        scheme == IF has_scheme THEN LowerCase(SubSeq(url, 1, colon - 1)) ELSE <<>>
        rest == IF has_scheme THEN SubSeq(url, colon + 1, Len(url)) ELSE url
        slashes == StartsWith(rest, << "/", "/" >>)
        delim == FindChar(rest, { "/", "?", "#" }, 3)
        netloc == IF ~slashes THEN <<>>
                  ELSE IF delim = 0 THEN SubSeq(rest, 3, Len(rest))
                  ELSE SubSeq(rest, 3, delim - 1)
        open == FindChar(netloc, { "[" }, 1) > 0
        close == FindChar(netloc, { "]" }, 1) > 0
    IN  [raised |-> open # close, scheme |-> scheme, netloc |-> netloc]

\* validate_url(url)
validate_url(url) ==
    LET result == urlparse(url)
    IN  /\ ~result.raised
        /\ result.scheme \in { HttpScheme, HttpsScheme }
        /\ result.netloc # <<>>

\* sanitize_url(url): the url, stripped and with https:// put in front of
\* anything that does not start with http:// or https://, or None (the
\* record without a url) when that does not validate
NoUrl == [none |-> TRUE]

sanitize_url(url) ==
    LET stripped == Strip(url)
        prefixed == IF StartsWith(stripped, HttpPrefix) \/ StartsWith(stripped, HttpsPrefix)
                    THEN stripped ELSE HttpsPrefix \o stripped
    IN  IF stripped = <<>> THEN NoUrl
        ELSE IF validate_url(prefixed) THEN [url |-> prefixed]
        ELSE NoUrl

\* url = sanitize_url(url) or url
NormalizedUrl(url) == IF sanitize_url(url) = NoUrl THEN url ELSE sanitize_url(url).url

\* the urls scrape is called with
ScrapedUrls ==
    { << "h", "t", "t", "p", "s", ":", "/", "/", "a", ".", "o", "r",
            "g" >>,
      << "h", "t", "t", "p", ":", "/", "/", "a", ".", "o", "r", "g",
            "/", "p" >>,
      << " ", "h", "t", "t", "p", "s", ":", "/", "/", "a", ".", "o",
            "r", "g", " " >>,
      << "a", ".", "o", "r", "g" >>,
      << "f", "t", "p", ":", "/", "/", "e", "x", "a", "m", "p", "l",
            "e", ".", "c", "o", "m" >>,
      << "m", "a", "i", "l", "t", "o", ":", "a", "@", "b", ".", "c" >>,
      << "h", "t", "t", "p", ":", "/", "/" >>,
      << "h", "t", "t", "p", "s", ":", "/", "/" >>,
      <<>>,
      << " " >>,
      << "/", "/", "x" >>,
      << "/", "p" >>,
      << "h", "t", "t", "p", ":", "/", "/", "/", "p" >>,
      << "h", "t", "t", "p", ":", "/", "/", "[" >>,
      << "f", "i", "l", "e", ":", "/", "/", "/", "e", "t", "c" >>,
      << "h", "t", "t", "p", ":", "a", ".", "o", "r", "g" >>,
      << "H", "T", "T", "P", ":", "/", "/", "a", ".", "o", "r", "g" >>,
      << "h", "t", "t", "p", "s", ":", "/", "/", "b", ".", "o", "r", "g", "/", "x", "?", "y" >>,
      << "b", ".", "o", "r", "g", "/", "p" >>,
      << "f", "t", "p", ":", "/", "/" >>,
      << "h", "t", "t", "p", "s", ":", "/", "/", "a", ".", "o", "r", "g", "#", "f" >> }

\* the page scrape extracts from what it fetched
ScrapedPage(url) ==
    [url |-> url, title |-> "Page", text |-> << "a", "b" >>, length |-> 2, success |-> TRUE]

\* self.session.get(url, ...) and the extraction: a page, a
\* requests.RequestException, or another exception
FetchOutcomes == { "page", "request error", "other error" }

\* self.cache.get(key): nothing, or the page an earlier scrape stored
ScrapeCacheOutcomes == { "miss", "hit" }

InvalidUrlPayload(url) ==
    [url |-> url, title |-> "", text |-> <<>>, length |-> 0, success |-> FALSE,
     error |-> << "Invalid URL" >>]

FetchErrorPayload(url, kind) ==
    [url |-> url, title |-> "", text |-> <<>>, length |-> 0, success |-> FALSE,
     error |-> IF kind = "request error" THEN << "Request error: ", "e" >>
               ELSE << "Scraping error: ", "e" >>]

\* scrape(url, use_cache): what it returns, with the cache lookups, the
\* fetches and the cache writes it made on the way
Scrape(url, use_cache, cached, fetched) ==
    LET target == NormalizedUrl(url)
    IN  IF ~validate_url(target)
        THEN [result |-> InvalidUrlPayload(target), lookups |-> <<>>, fetches |-> <<>>,
              stores |-> <<>>]
        ELSE IF use_cache /\ cached = "hit"
        THEN [result |-> ScrapedPage(target), lookups |-> << target >>, fetches |-> <<>>,
              stores |-> <<>>]
        ELSE [result |-> IF fetched = "page" THEN ScrapedPage(target)
                         ELSE FetchErrorPayload(target, fetched),
              lookups |-> IF use_cache THEN << target >> ELSE <<>>,
              fetches |-> << target >>,
              stores |-> IF use_cache /\ fetched = "page" THEN << target >> ELSE <<>>]

InitScrape ==
    /\ \E url \in ScrapedUrls, use_cache \in BOOLEAN :
         scrape = [url |-> url, use_cache |-> use_cache, returned |-> FALSE]
    /\ plan = NoPlan
    /\ pc = "start"
    /\ stage = 1
    /\ pos = 1
    /\ tool_results = <<>>
    /\ errors = <<>>
    /\ success = TRUE
    /\ urls_to_scrape = <<>>
    /\ search_results = <<>>
    /\ scrape_results = <<>>
    /\ invocations = <<>>
    /\ query = << "Q" >>
    /\ report = NoReport
    /\ generation = NoGeneration
    /\ research_result = NoResult
    /\ planning = NoPlanning
    /\ parked = NoFrame
    /\ running = 1
    /\ request = NoRequest
    /\ cache_file = NoFile
    /\ clock = 0
    /\ cache_calls = NoCalls
    /\ index_calls = <<>>
    /\ events = <<>>

\* one call of scrape
ScrapeCall ==
    /\ ~scrape.returned
    /\ \E cached \in ScrapeCacheOutcomes, fetched \in FetchOutcomes :
         LET done == Scrape(scrape.url, scrape.use_cache, cached, fetched)
         IN  scrape' = [url |-> scrape.url, use_cache |-> scrape.use_cache,
                        returned |-> TRUE, result |-> done.result,
                        lookups |-> done.lookups, fetches |-> done.fetches,
                        stores |-> done.stores]
    /\ UNCHANGED << plan, pc, stage, pos, tool_results, errors, success, urls_to_scrape,
                    search_results, scrape_results, invocations, query, report,
                    generation, research_result, planning, parked, running, request,
                    cache_file, clock, cache_calls, index_calls, events >>

NextScrape == ScrapeCall

SpecScrape == InitScrape /\ [][NextScrape]_vars

----------------------------------------------------------------------------
(* JSONCache: the file of one key, with get and set called one after the     *)
(* other while time passes. The clock counts hours.                          *)

\* ttl_hours: int = 24
TTL_HOURS == 24

\* how much time passes in one step, and how far the clock runs
ClockStep == TTL_HOURS \div 2
LatestClock == 2 * TTL_HOURS + ClockStep

\* the values the tools store
CacheValues == { "v1", "v2" }

\* the file json.dump wrote to the end
EntryFile(now, value) ==
    [exists |-> TRUE, kind |-> "entry", timestamp |-> now, value |-> value]

\* a file that json.load or the reading of its timestamp fails on: a write
\* that broke off after open(cache_path, 'w') had emptied the file
BrokenFile == [exists |-> TRUE, kind |-> "broken"]

\* an entry that is dropped as soon as it is TTL old
Expired_AtTtl(now, timestamp) == now - timestamp >= TTL_HOURS

\* datetime.now() - cached_time > self.ttl
Expired(now, timestamp) == now - timestamp > TTL_HOURS

\* get(key): the value returned, None being "absent", and the file it leaves
CacheGet(file, now) ==
    IF ~file.exists THEN [returned |-> "absent", file |-> file]
    ELSE IF file.kind # "entry" THEN [returned |-> "absent", file |-> NoFile]
    ELSE IF Expired(now, file.timestamp) THEN [returned |-> "absent", file |-> NoFile]
    ELSE [returned |-> file.value, file |-> file]

\* set(key, value): the file it leaves; an exception while writing is
\* passed over and leaves what had been written by then
CacheSet(now, value, written) ==
    IF written = "all" THEN EntryFile(now, value) ELSE BrokenFile

InitCache ==
    /\ cache_file = NoFile
    /\ clock = 0
    /\ cache_calls = [op |-> "none", found |-> NoFile, returned |-> "absent",
                      latest |-> "none"]
    /\ plan = NoPlan
    /\ pc = "start"
    /\ stage = 1
    /\ pos = 1
    /\ tool_results = <<>>
    /\ errors = <<>>
    /\ success = TRUE
    /\ urls_to_scrape = <<>>
    /\ search_results = <<>>
    /\ scrape_results = <<>>
    /\ invocations = <<>>
    /\ query = << "Q" >>
    /\ report = NoReport
    /\ generation = NoGeneration
    /\ research_result = NoResult
    /\ planning = NoPlanning
    /\ parked = NoFrame
    /\ running = 1
    /\ request = NoRequest
    /\ scrape = NoScrape
    /\ index_calls = <<>>
    /\ events = <<>>

cache_frame == << plan, pc, stage, pos, tool_results, errors, success, urls_to_scrape,
                  search_results, scrape_results, invocations, query, report,
                  generation, research_result, planning, parked, running, request,
                  scrape, index_calls, events >>

\* a call of set
SetCalled ==
    /\ \E value \in CacheValues, written \in { "all", "part" } :
         /\ cache_file' = CacheSet(clock, value, written)
         /\ cache_calls' = [op |-> "set", found |-> NoFile, returned |-> "absent",
                            latest |-> value]
    /\ UNCHANGED clock
    /\ UNCHANGED cache_frame

\* a call of get
GetCalled ==
    /\ cache_file' = CacheGet(cache_file, clock).file
    /\ cache_calls' = [cache_calls EXCEPT !.op = "get", !.found = cache_file,
                                          !.returned = CacheGet(cache_file, clock).returned]
    /\ UNCHANGED clock
    /\ UNCHANGED cache_frame

\* time passes between two calls
ClockTicks ==
    /\ clock < LatestClock
    /\ clock' = clock + ClockStep
    /\ cache_calls' = [cache_calls EXCEPT !.op = "none"]
    /\ UNCHANGED cache_file
    /\ UNCHANGED cache_frame

NextCache ==
    \/ SetCalled
    \/ GetCalled
    \/ ClockTicks

SpecCache == InitCache /\ [][NextCache]_vars

----------------------------------------------------------------------------
(* JSONCache under two runs: each run makes one call of get or set on the    *)
(* same key, and the file operations of the two calls are interleaved. A     *)
(* file that is unlinked while a writer holds it open stays with the writer  *)
(* alone: what it writes is no longer under the path.                        *)

CacheRuns == { 1, 2 }

\* the value run r stores: its own
ValueOf(r) == IF r = 1 THEN "v1" ELSE "v2"

\* a call at its first statement
CallOf(r, op) ==
    [op |-> op, pc |-> IF op = "get" THEN "exists" ELSE "open", value |-> ValueOf(r),
     attached |-> FALSE, returned |-> "none"]

\* the files the two calls can find: none, one a write broke off in, a fresh
\* entry and one that has outlived the TTL
FoundFiles(now) ==
    { NoFile, BrokenFile, EntryFile(now, "v0"), EntryFile(now - TTL_HOURS - ClockStep, "v0") }

InitCacheRace ==
    /\ clock = LatestClock
    /\ cache_file \in FoundFiles(LatestClock)
    /\ \E op1, op2 \in { "get", "set" } :
         cache_calls = [r \in CacheRuns |-> CallOf(r, IF r = 1 THEN op1 ELSE op2)]
    /\ plan = NoPlan
    /\ pc = "start"
    /\ stage = 1
    /\ pos = 1
    /\ tool_results = <<>>
    /\ errors = <<>>
    /\ success = TRUE
    /\ urls_to_scrape = <<>>
    /\ search_results = <<>>
    /\ scrape_results = <<>>
    /\ invocations = <<>>
    /\ query = << "Q" >>
    /\ report = NoReport
    /\ generation = NoGeneration
    /\ research_result = NoResult
    /\ planning = NoPlanning
    /\ parked = NoFrame
    /\ running = 1
    /\ request = NoRequest
    /\ scrape = NoScrape
    /\ index_calls = <<>>
    /\ events = <<>>

\* the call of run r moves on
Moved(r, pc_after, returned) ==
    [cache_calls EXCEPT ![r].pc = pc_after, ![r].returned = returned]

\* cache_path.unlink() by run r: the path is gone, and a writer that holds
\* the file open is left with a file of its own
Unlinked(r, pc_after, returned) ==
    [q \in CacheRuns |->
        IF q = r THEN [cache_calls[q] EXCEPT !.pc = pc_after, !.returned = returned]
        ELSE [cache_calls[q] EXCEPT !.attached = FALSE]]

\* cache_path.unlink() in the except clause: FileNotFoundError leaves get
\* when the file is gone
ExceptUnlinkOutcome(r) ==
    IF cache_file.exists
    THEN [file |-> NoFile, calls |-> Unlinked(r, "done", "absent")]
    ELSE [file |-> cache_file, calls |-> Moved(r, "raised", "none")]

\* get: if not cache_path.exists(): return None
GetExists(r) ==
    /\ cache_calls[r].pc = "exists"
    /\ cache_calls' = IF cache_file.exists THEN Moved(r, "read", "none")
                      ELSE Moved(r, "done", "absent")
    /\ UNCHANGED << cache_file, clock >>
    /\ UNCHANGED cache_frame

\* get: open, json.load, the timestamp and the expiration check; a missing
\* or broken file raises into the except clause
GetRead(r) ==
    /\ cache_calls[r].pc = "read"
    /\ cache_calls' =
         IF ~cache_file.exists \/ cache_file.kind # "entry" THEN Moved(r, "except", "none")
         ELSE IF Expired(clock, cache_file.timestamp) THEN Moved(r, "expired", "none")
         ELSE Moved(r, "done", cache_file.value)
    /\ UNCHANGED << cache_file, clock >>
    /\ UNCHANGED cache_frame

\* get: cache_path.unlink() of the expired entry, inside the try block
GetUnlinkExpired(r) ==
    /\ cache_calls[r].pc = "expired"
    /\ IF cache_file.exists
       THEN /\ cache_file' = NoFile
            /\ cache_calls' = Unlinked(r, "done", "absent")
       ELSE /\ cache_file' = cache_file
            /\ cache_calls' = Moved(r, "except", "none")
    /\ UNCHANGED clock
    /\ UNCHANGED cache_frame

\* get, except clause: if cache_path.exists()
ExceptExists(r) ==
    /\ cache_calls[r].pc = "except"
    /\ cache_calls' = IF cache_file.exists THEN Moved(r, "unlink", "none")
                      ELSE Moved(r, "done", "absent")
    /\ UNCHANGED << cache_file, clock >>
    /\ UNCHANGED cache_frame

\* get, except clause: cache_path.unlink() and return None
ExceptUnlink(r) ==
    /\ cache_calls[r].pc = "unlink"
    /\ cache_file' = ExceptUnlinkOutcome(r).file
    /\ cache_calls' = ExceptUnlinkOutcome(r).calls
    /\ UNCHANGED clock
    /\ UNCHANGED cache_frame

\* set: open(cache_path, 'w') empties the file or makes a new one
SetOpen(r) ==
    /\ cache_calls[r].pc = "open"
    /\ cache_file' = BrokenFile
    /\ cache_calls' = [cache_calls EXCEPT ![r].pc = "write", ![r].attached = TRUE]
    /\ UNCHANGED clock
    /\ UNCHANGED cache_frame

\* set: json.dump and the close of the file
SetWrite(r) ==
    /\ cache_calls[r].pc = "write"
    /\ cache_file' = IF cache_calls[r].attached THEN EntryFile(clock, cache_calls[r].value)
                     ELSE cache_file
    /\ cache_calls' = [cache_calls EXCEPT ![r].pc = "done", ![r].attached = FALSE]
    /\ UNCHANGED clock
    /\ UNCHANGED cache_frame

NextCacheRace ==
    \/ \E r \in CacheRuns : GetExists(r)
    \/ \E r \in CacheRuns : GetRead(r)
    \/ \E r \in CacheRuns : GetUnlinkExpired(r)
    \/ \E r \in CacheRuns : ExceptExists(r)
    \/ \E r \in CacheRuns : ExceptUnlink(r)
    \/ \E r \in CacheRuns : SetOpen(r)
    \/ \E r \in CacheRuns : SetWrite(r)

SpecCacheRace == InitCacheRace /\ [][NextCacheRace]_vars

----------------------------------------------------------------------------
(* Vocabulary of the properties *)

IsPrefix(a, b) == Len(a) <= Len(b) /\ SubSeq(b, 1, Len(a)) = a

\* the invocations made while stage i of tool_sequence was running
StageInvocations(i) == SelectSeq(invocations, LAMBDA c : c.stage = i)

\* the results execute_tool returned, in the order of the invocations
ResultsOf(invs) == [k \in 1..Len(invs) |-> invs[k].result]

\* the invocations of one tool
InvocationsOf(name) == SelectSeq(invocations, LAMBDA c : c.tool = name)

StageIs(i, name) == i \in 1..Len(plan.tool_sequence) /\ plan.tool_sequence[i] = name
Completed(i) == i < stage
StageIndexes == 1..Len(plan.tool_sequence)

\* how many of the first k invocations of invs came back with success=true
SuccessesAmong(invs, k) == Cardinality({ j \in 1..k : invs[j].result.success })

----------------------------------------------------------------------------
(* C1 *)

C1_ExpectedQueries ==
    LET L == SubSeq(plan.sub_questions, 1, Min(5, Len(plan.sub_questions)))
    IN  IF Len(L) > 3 THEN << plan.query >> ELSE L

\* C1: a web_search stage searches the main query once when the truncated
\* sub-question list has more than 3 entries, and otherwise each sub-question
\* once, in order; it never issues more than 3 invocations.
C1_SearchFanOut ==
    \A i \in StageIndexes :
        StageIs(i, "web_search") =>
            LET invs == StageInvocations(i)
                queries == [k \in 1..Len(invs) |-> invs[k].calls[1].args.query]
            IN  /\ \A k \in 1..Len(invs) :
                      invs[k].tool = "web_search" /\ Len(invs[k].calls) = 1
                /\ Len(invs) <= 3
                /\ IsPrefix(queries, C1_ExpectedQueries)
                /\ Completed(i) => queries = C1_ExpectedQueries

\* a stage on exactly 3 sub-questions that ran its 3 searches
C1_Witness ==
    \E i \in StageIndexes :
        /\ StageIs(i, "web_search") /\ Completed(i)
        /\ Len(plan.sub_questions) = 3
        /\ Len(StageInvocations(i)) = 3

----------------------------------------------------------------------------
(* C2 *)

\* C2: a scraper stage scrapes a prefix of urls_to_scrape, in order, at most
\* 3 urls long, and issues no scrape once 2 of its invocations have succeeded.
C2_ScrapeEarlyStop ==
    \A i \in StageIndexes :
        StageIs(i, "scraper") =>
            LET invs == StageInvocations(i)
                scraped == [k \in 1..Len(invs) |-> invs[k].calls[1].args.url]
            IN  /\ \A k \in 1..Len(invs) :
                      invs[k].tool = "scraper" /\ Len(invs[k].calls) = 1
                /\ Len(invs) <= 3
                /\ IsPrefix(scraped, urls_to_scrape)
                /\ \A k \in 1..(Len(invs) - 1) : SuccessesAmong(invs, k) < 2

\* 5 or more candidate urls, the first two scrapes succeeded, the stage is over
\* and made exactly 2 invocations
C2_Witness ==
    \E i \in StageIndexes :
        /\ StageIs(i, "scraper") /\ Completed(i)
        /\ \A k \in 1..Len(invocations) :
              invocations[k].tool = "web_search" => invocations[k].stage < i
        /\ Len(urls_to_scrape) >= 5
        /\ Len(StageInvocations(i)) = 2
        /\ SuccessesAmong(StageInvocations(i), 2) = 2

----------------------------------------------------------------------------
(* C3 *)

C3_Failed(results) == SelectSeq(results, LAMBDA r : ~r.success)

\* C3: when execute_plan returns, errors holds one {tool, error} entry for
\* every failed entry of tool_results, whichever stage produced it.
C3_ErrorsMatchFailures ==
    pc = "done" =>
        LET failed == C3_Failed(tool_results)
        IN  /\ Len(errors) = Len(failed)
            /\ \A k \in 1..Len(failed) :
                  errors[k] = [tool |-> failed[k].tool, error |-> failed[k].error]

----------------------------------------------------------------------------
(* C4 *)

\* the end-to-end scenario: 4 sub-questions, [web_search, scraper, summarizer],
\* every search returns one url, every scrape made on the first 2 urls
\* succeeds, the summarizer returns
C4_Scenario ==
    /\ pc = "done"
    /\ Len(plan.sub_questions) = 4
    /\ plan.tool_sequence = << "web_search", "scraper", "summarizer" >>
    /\ \A k \in 1..Len(invocations) :
          LET c == invocations[k]
          IN  /\ c.result.success
              /\ c.tool = "web_search" =>
                    /\ Len(c.result.result.results) = 1
                    /\ "error" \notin DOMAIN c.result.result
              /\ c.tool = "scraper" => c.result.result.success

C4_Citations == ExtractCitations(tool_results)

C4_CitationsBounded ==
    /\ Len(C4_Citations) <= 6
    /\ \A a, b \in 1..Len(C4_Citations) :
          C4_Citations[a].url = C4_Citations[b].url => a = b

\* C4 as stated: 4 searches, 2 scrapes, 1 summary, no errors, at most 6
\* citations without a repeated url.
C4_AsStated ==
    C4_Scenario =>
        /\ Len(InvocationsOf("web_search")) = 4
        /\ Len(InvocationsOf("scraper")) = 2
        /\ Len(InvocationsOf("summarizer")) = 1
        /\ errors = <<>>
        /\ C4_CitationsBounded

\* C4 as amended: with 4 sub-questions the stage searches the main query only,
\* so the scenario has 1 search, 1 scrape (of the one url found), 1 summary,
\* no errors, at most 6 citations without a repeated url.
C4_EndToEnd ==
    C4_Scenario =>
        /\ Len(InvocationsOf("web_search")) = 1
        /\ InvocationsOf("web_search")[1].kwargs.query = plan.query
        /\ Len(InvocationsOf("scraper")) = 1
        /\ Len(InvocationsOf("summarizer")) = 1
        /\ errors = <<>>
        /\ C4_CitationsBounded

C4_Witness == C4_Scenario /\ Len(invocations) = 3 /\ Len(tool_results) = 3

----------------------------------------------------------------------------
(* C5 *)

\* C5: an exception of a tool call never leaves execute_tool: the invocation
\* returns success=false with the exception's message, and the run goes on
\* with the stages that remain.
C5_ExceptionsContained ==
    /\ \A k \in 1..Len(invocations) :
          LET c == invocations[k]
          IN  c.outcome.raised =>
                 c.result = [tool |-> c.tool, success |-> FALSE,
                             error |-> c.outcome.message]
    /\ ( /\ invocations # <<>>
         /\ invocations[Len(invocations)].outcome.raised
         /\ pc # "done"
         /\ Len(invocations) < MaxCalls ) => ENABLED Next

\* an invocation raised in one stage and a later stage still invoked a tool
C5_Witness ==
    \E j, k \in 1..Len(invocations) :
        /\ invocations[j].outcome.raised
        /\ invocations[j].stage < invocations[k].stage
        /\ pc = "done"

----------------------------------------------------------------------------
(* C6 *)

C6_Registered == {"web_search", "scraper", "data_analysis", "calculator", "summarizer"}

\* C6: for a name outside the registry execute_tool returns success=false
\* with the error "Unknown tool: <name>" and calls no tool.
C6_UnknownTool ==
    \A k \in 1..Len(invocations) :
        LET c == invocations[k]
        IN  c.tool \notin C6_Registered =>
               /\ c.result = [tool |-> c.tool, success |-> FALSE,
                              error |-> << "Unknown tool: ", c.tool >>]
               /\ c.calls = <<>>

C6_Witness ==
    \E k \in 1..Len(invocations) : invocations[k].tool \notin C6_Registered

----------------------------------------------------------------------------
(* C7 *)

C7_WellFormed(r) ==
    IF r.success
    THEN "result" \in DOMAIN r /\ "error" \notin DOMAIN r
    ELSE /\ "error" \in DOMAIN r
         /\ \E n \in 1..Len(r.error) : r.error[n] # ""
         /\ "result" \notin DOMAIN r

C7_AllResults == tool_results \o search_results \o scrape_results \o ResultsOf(invocations)

\* C7: a failed result carries a non-empty error and no result; a successful
\* one carries a result and no error.
C7_ResultShape ==
    \A k \in 1..Len(C7_AllResults) : C7_WellFormed(C7_AllResults[k])

C7_Witness ==
    /\ pc = "done"
    /\ \E a, b \in 1..Len(tool_results) :
          tool_results[a].success /\ ~tool_results[b].success

----------------------------------------------------------------------------
(* C8 *)

C8_LogInOrder ==
    LET returned == ResultsOf(invocations)
    IN  /\ pc \in {"loop", "done"} => tool_results = returned
        /\ pc = "search" => tool_results \o search_results = returned
        /\ pc = "scrape" => tool_results \o scrape_results = returned
        /\ \A k \in 1..Len(invocations) :
              /\ StageIs(invocations[k].stage, invocations[k].tool)
              /\ \A j \in 1..(k - 1) : invocations[j].stage <= invocations[k].stage

\* C8: tool_results holds one entry per invocation, in the order the
\* invocations were executed (stages in tool_sequence order), and an entry
\* once appended is never reordered, modified or removed.
C8_OrderedLog ==
    /\ []C8_LogInOrder
    /\ [][IsPrefix(tool_results, tool_results')]_vars

\* a finished run whose log has entries of a search stage and of a scrape stage
C8_Witness ==
    /\ pc = "done"
    /\ Len(tool_results) >= 3
    /\ \E a, b \in 1..Len(tool_results) :
          tool_results[a].tool = "web_search" /\ tool_results[b].tool = "scraper"

----------------------------------------------------------------------------
(* C9 *)

\* the item urls of the successful web_search results of invs, in order
RECURSIVE C9_UrlsOf(_)
C9_UrlsOf(invs) ==
    IF invs = <<>> THEN <<>>
    ELSE LET c == Head(invs)
         IN  (IF c.tool = "web_search" /\ c.result.success
              THEN [n \in 1..Len(c.result.result.results) |-> c.result.result.results[n].url]
              ELSE <<>>)
             \o C9_UrlsOf(Tail(invs))

\* C9: urls_to_scrape is the concatenation of the item urls of the successful
\* searches so far, duplicates kept, and it only ever grows at its end.
C9_UrlAccumulator ==
    /\ [](urls_to_scrape = C9_UrlsOf(invocations))
    /\ [][IsPrefix(urls_to_scrape, urls_to_scrape')]_vars

\* a failed search, a repeated url and an empty url in the accumulator
C9_Witness ==
    /\ \E k \in 1..Len(invocations) :
          invocations[k].tool = "web_search" /\ ~invocations[k].result.success
    /\ \E a, b \in 1..Len(urls_to_scrape) :
          a < b /\ urls_to_scrape[a] = urls_to_scrape[b]
    /\ \E a \in 1..Len(urls_to_scrape) : urls_to_scrape[a] = ""

----------------------------------------------------------------------------
(* C10 *)

\* the texts of the successful scraper entries, each followed by sep
RECURSIVE C10_Buffer(_, _)
C10_Buffer(results, sep) ==
    IF results = <<>> THEN <<>>
    ELSE (IF Head(results).tool = "scraper" /\ Head(results).success
          THEN Head(results).result.text \o sep
          ELSE <<>>)
         \o C10_Buffer(Tail(results), sep)

C10_Prior(i) == ResultsOf(SelectSeq(invocations, LAMBDA c : c.stage < i))

\* a finished data_analysis stage made one invocation on the buffer, with
\* create_chart=true, and appended its result, or none on an empty buffer
C10_StageDone(sep) ==
    \A i \in StageIndexes :
        (StageIs(i, "data_analysis") /\ Completed(i)) =>
            LET prior == C10_Prior(i)
                buffer == C10_Buffer(prior, sep)
                invs == StageInvocations(i)
            IN  IF buffer # <<>>
                THEN /\ Len(invs) = 1
                     /\ invs[1].calls =
                          << [tool |-> "data_analysis",
                              args |-> [text |-> buffer, data |-> "None",
                                        create_chart |-> TRUE]] >>
                     /\ Len(tool_results) > Len(prior)
                     /\ tool_results[Len(prior) + 1] = invs[1].result
                ELSE invs = <<>>

\* C10 as stated: the buffer is the plain concatenation of the prior
\* successful scrape texts; non-empty: one invocation on it; empty: none.
C10_AsStated == C10_StageDone(<<>>)

C10_AtEmptyAnalysis ==
    /\ pc = "loop"
    /\ StageIs(stage, "data_analysis")
    /\ C10_Buffer(tool_results, <<" ">>) = <<>>

\* C10 as amended: the buffer is the concatenation of the prior successful
\* scrape texts, each followed by one space; non-empty: one invocation on it
\* with create_chart=true, result appended; empty: no invocation, and
\* tool_results and errors stay as they are.
C10_DataAnalysisStage ==
    /\ []C10_StageDone(<<" ">>)
    /\ [][C10_AtEmptyAnalysis =>
            /\ tool_results' = tool_results
            /\ errors' = errors
            /\ invocations' = invocations]_vars

\* a finished data_analysis stage that analysed scraped text
C10_Witness ==
    \E i \in StageIndexes :
        /\ StageIs(i, "data_analysis") /\ Completed(i)
        /\ Len(StageInvocations(i)) = 1
        /\ Len(StageInvocations(i)[1].kwargs.text) > 2
        /\ \E k \in 1..Len(tool_results) : tool_results[k].tool = "data_analysis"

----------------------------------------------------------------------------
(* C11 *)

\* what one scraped text contributes: its first 2000 characters and a blank
\* line
C11_Contribution(r) ==
    SubSeq(r.result.text, 1, Min(2000, Len(r.result.text))) \o << "\n", "\n" >>

C11_Scraped(results) == SelectSeq(results, LAMBDA r : r.tool = "scraper" /\ r.success)

\* the contributions of the first k successful scrapes, one after the other
RECURSIVE C11_Running(_, _)
C11_Running(scraped, k) ==
    IF k = 0 THEN <<>>
    ELSE C11_Running(scraped, k - 1) \o C11_Contribution(scraped[k])

\* the buffer when accumulation stops: after the first scrape that makes it
\* longer than 3000 characters, or after the last scrape
C11_Buffer(results) ==
    LET scraped == C11_Scraped(results)
        over == { k \in 1..Len(scraped) : Len(C11_Running(scraped, k)) > 3000 }
        stop == IF over = {} THEN Len(scraped)
                ELSE CHOOSE k \in over : \A j \in over : k <= j
    IN  C11_Running(scraped, stop)

C11_AtSummarizer == pc = "loop" /\ StageIs(stage, "summarizer")

\* C11: in a summarizer stage each prior successful scrape text contributes
\* its first 2000 characters and a blank line, accumulation stops once the
\* buffer is longer than 3000 characters, the summarizer is handed the first
\* 3000 characters of the buffer with max_length=150 and style 'concise',
\* and its result is appended; an empty buffer means no invocation and no
\* entry in tool_results or errors.
C11_SummarizerStage ==
    /\ [](C11_AtSummarizer => TextToSummarize(tool_results) = C11_Buffer(tool_results))
    /\ [][C11_AtSummarizer =>
            LET buffer == C11_Buffer(tool_results)
            IN  IF buffer = <<>>
                THEN /\ invocations' = invocations
                     /\ tool_results' = tool_results
                     /\ errors' = errors
                ELSE /\ Len(invocations') = Len(invocations) + 1
                     /\ LET c == invocations'[Len(invocations')]
                        IN  /\ c.calls =
                                 << [tool |-> "summarizer",
                                     args |-> [text |-> SubSeq(buffer, 1, Min(3000, Len(buffer))),
                                               max_length |-> 150,
                                               style |-> "concise"]] >>
                            /\ Len(c.calls[1].args.text) <= 3000
                            /\ tool_results' = Append(tool_results, c.result)]_vars

\* a summarizer invocation on exactly 3000 characters, after a scrape text of
\* more than 2000 characters and with a later scrape left out of the buffer
C11_Witness ==
    /\ invocations # <<>>
    /\ LET c == invocations[Len(invocations)]
           prior == SubSeq(tool_results, 1, Len(tool_results) - 1)
       IN  /\ c.tool = "summarizer"
           /\ Len(c.calls[1].args.text) = 3000
           /\ \E k \in 1..Len(prior) :
                 prior[k].tool = "scraper" /\ prior[k].success
                 /\ Len(prior[k].result.text) > 2000
           /\ Len(C11_Buffer(prior))
                < Len(C11_Running(C11_Scraped(prior), Len(C11_Scraped(prior))))

----------------------------------------------------------------------------
(* C12 *)

C12_Special == { "web_search", "scraper", "data_analysis", "summarizer" }

\* C12: a finished stage of any other name made exactly one invocation with
\* no derived arguments and left exactly one entry in tool_results; when the
\* tool is registered (the calculator) the missing expression defaulted to
\* the empty string, the call did not raise, and the entry is a failure
\* (success=false) that errors records.
C12_GenericStage ==
    \A i \in StageIndexes :
        (plan.tool_sequence[i] \notin C12_Special /\ Completed(i)) =>
            LET invs == StageInvocations(i)
                before == Len(C10_Prior(i))
            IN  /\ Len(invs) = 1
                /\ DOMAIN invs[1].kwargs = { "none" }
                /\ Len(tool_results) > before
                /\ tool_results[before + 1] = invs[1].result
                /\ plan.tool_sequence[i] \in Registry =>
                      /\ invs[1].calls = << [tool |-> "calculator",
                                             args |-> [expression |-> ""]] >>
                      /\ ~invs[1].outcome.raised
                      /\ ~invs[1].result.success
                      /\ \E k \in 1..Len(errors) : errors[k].tool = "calculator"

----------------------------------------------------------------------------
(* C13 *)

\* C13: the success flag of the log is true in every state of execute_plan,
\* the returned one included, whatever fails.
C13_SuccessFlag == success = TRUE

\* a returned log with an errors entry whose invocations all failed
C13_Witness ==
    /\ pc = "done"
    /\ Len(invocations) >= 2
    /\ \A k \in 1..Len(invocations) : ~invocations[k].result.success
    /\ errors # <<>>

----------------------------------------------------------------------------
(* C14 *)

\* C14: a plan with an empty tool_sequence has no tool invoked and returns a
\* log with empty tool_results and empty errors, whatever its sub-questions.
C14_EmptySequence ==
    plan.tool_sequence = <<>> =>
        /\ invocations = <<>>
        /\ tool_results = <<>>
        /\ errors = <<>>
        /\ ENABLED Next => ENABLED Return

\* the log returned for a plan with sub-questions and no stage
C14_Witness ==
    /\ pc = "done"
    /\ plan.tool_sequence = <<>>
    /\ Len(plan.sub_questions) >= 2

----------------------------------------------------------------------------
(* C16 *)

C16_Reported == pc = "reported"

\* the numbered reference list, one line per citation from the i-th on
RECURSIVE C16_References(_, _)
C16_References(citations, i) ==
    IF i > Len(citations) THEN <<>>
    ELSE Numeral(i) \o << ".", " ", "[" >> \o Chars(citations[i].title)
           \o << "]", "(" >> \o Chars(citations[i].url) \o << ")", "\n" >>
           \o C16_References(citations, i + 1)

\* C16: generate_report always returns; when the generation raised, the
\* report has success=false, the exception's message as error, the citations
\* of extract_citations(tool_results) and the fallback template filled with
\* the query, the number of citations, the first 2000 characters of the
\* context and the numbered references; when it returned, the report has
\* success=true and no error.
C16_NeverRaises ==
    /\ [][pc = "done" => pc' = "reported" /\ report' # NoReport]_vars
    /\ [](C16_Reported =>
          /\ report.query = query
          /\ report.citations = ExtractCitations(tool_results)
          /\ IF generation.outcome.raised
             THEN /\ report.success = FALSE
                  /\ report.error = generation.outcome.message
                  /\ report.markdown =
                        FallbackTitle \o query \o FallbackSummary \o query
                          \o FallbackFindings \o Numeral(Len(report.citations))
                          \o FallbackDeepDive
                          \o SubSeq(generation.context, 1,
                                    Min(2000, Len(generation.context)))
                          \o FallbackConclusion
                          \o C16_References(report.citations, 1)
             ELSE /\ report.success = TRUE
                  /\ "error" \notin DOMAIN report)

\* a fallback report with several citations and a context cut at 2000
\* characters
C16_Witness ==
    /\ C16_Reported
    /\ generation.outcome.raised
    /\ Len(report.citations) >= 2
    /\ Len(generation.context) > 2000

----------------------------------------------------------------------------
(* C17 *)

C17_Heading == << "#", "#", " ", "R", "e", "f", "e", "r", "e", "n", "c", "e", "s" >>

C17_HasSection(text) ==
    \E i \in 1..(Len(text) - 12) : SubSeq(text, i, i + 12) = C17_Heading

\* the appended section: the heading between blank lines, then a numbered
\* line with title and url per citation, in citation order
RECURSIVE C17_Lines(_, _)
C17_Lines(citations, n) ==
    IF n = 0 THEN << "\n", "\n" >> \o C17_Heading \o << "\n", "\n" >>
    ELSE C17_Lines(citations, n - 1)
           \o Numeral(n) \o << ".", " ", "[" >> \o Chars(citations[n].title)
           \o << "]", "(" >> \o Chars(citations[n].url) \o << ")", "\n" >>

\* C17: a returned report with citations has a references section in its
\* markdown; a generated text without one gets the numbered list appended,
\* a generated text with one is returned as it is, and without citations
\* nothing is appended.
C17_ReferencesSection ==
    C16_Reported =>
        /\ report.citations # <<>> => C17_HasSection(report.markdown)
        /\ ~generation.outcome.raised =>
              LET text == generation.outcome.payload
              IN  report.markdown =
                    IF ~C17_HasSection(text) /\ report.citations # <<>>
                    THEN text \o C17_Lines(report.citations, Len(report.citations))
                    ELSE text

\* a generated text without references, returned with the list of several
\* citations appended
C17_Witness ==
    /\ C16_Reported
    /\ ~generation.outcome.raised
    /\ ~C17_HasSection(generation.outcome.payload)
    /\ Len(report.citations) >= 2
    /\ C17_HasSection(report.markdown)

----------------------------------------------------------------------------
(* C18 *)

\* the url/title pairs extract_citations meets, in scan order: the items of
\* the successful web_search entries and the pages of the successful
\* scraper entries
RECURSIVE C18_Occurrences(_)
C18_Occurrences(results) ==
    IF results = <<>> THEN <<>>
    ELSE LET r == Head(results)
         IN  (IF r.success /\ r.tool = "web_search"
              THEN [k \in 1..Len(r.result.results) |->
                      [url |-> r.result.results[k].url,
                       title |-> r.result.results[k].title]]
              ELSE IF r.success /\ r.tool = "scraper"
              THEN << [url |-> r.result.url, title |-> r.result.title] >>
              ELSE <<>>)
             \o C18_Occurrences(Tail(results))

C18_First(occ, url) ==
    CHOOSE k \in 1..Len(occ) :
        occ[k].url = url /\ \A j \in 1..(k - 1) : occ[j].url # url

\* C18: the citations of a log hold no url twice, every non-empty url met
\* is cited exactly as it is stored, and a citation carries the title of
\* the first occurrence of its url.
C18_Dedup ==
    C16_Reported =>
        LET occ == C18_Occurrences(tool_results)
            cited == report.citations
        IN  /\ \A a, b \in 1..Len(cited) : cited[a].url = cited[b].url => a = b
            /\ \A k \in 1..Len(occ) :
                  occ[k].url # "" => \E a \in 1..Len(cited) : cited[a].url = occ[k].url
            /\ \A a \in 1..Len(cited) :
                  /\ \E k \in 1..Len(occ) : occ[k].url = cited[a].url
                  /\ LET first == occ[C18_First(occ, cited[a].url)]
                     IN  first.title # "" => cited[a].title = first.title

\* two web_search results hold the same url under two titles, and a url
\* that differs from it by a slash: one citation with the first title, and
\* one for the other url
C18_Witness ==
    /\ C16_Reported
    /\ Len(tool_results) >= 2
    /\ tool_results[1].tool = "web_search" /\ tool_results[1].success
    /\ tool_results[2].tool = "web_search" /\ tool_results[2].success
    /\ tool_results[1].result.results[1] = [title |-> "A", url |-> "https://a.org"]
    /\ tool_results[2].result.results[1] = [title |-> "B", url |-> "https://a.org"]
    /\ report.citations[1] = [title |-> "A", url |-> "https://a.org"]
    /\ \E a \in 1..Len(report.citations) : report.citations[a].url = "https://a.org/"

----------------------------------------------------------------------------
(* C19 *)

\* the occurrences that are cited: a non-empty url not met before
C19_Cited(occ) ==
    SelectSeq([k \in 1..Len(occ) |-> [at |-> k, url |-> occ[k].url, title |-> occ[k].title]],
              LAMBDA o : o.url # "" /\ \A j \in 1..(o.at - 1) : occ[j].url # o.url)

\* C19: the citations are, in the order of first occurrence, the non-empty
\* urls of the items of the successful web_search entries and of the pages
\* of the successful scraper entries, each with its title or, when that is
\* empty, with the url; failed entries and entries of other tools add
\* nothing; the log is left as it is, and every extraction from it gives
\* the same list.
C19_Extraction ==
    /\ [](C16_Reported =>
            LET expected == C19_Cited(C18_Occurrences(tool_results))
            IN  /\ Len(report.citations) = Len(expected)
                /\ \A a \in 1..Len(expected) :
                      /\ report.citations[a].url = expected[a].url
                      /\ report.citations[a].title =
                            IF expected[a].title # "" THEN expected[a].title
                            ELSE expected[a].url
                /\ ExtractCitations(tool_results) = report.citations)
    /\ [][tool_results' = tool_results]_<< pc, report >>

\* a log with a failed search, a failed scrape, another tool's entry and an
\* empty url, and a citation whose empty title the url replaced
C19_Witness ==
    /\ C16_Reported
    /\ \E k \in 1..Len(tool_results) :
          tool_results[k].tool = "web_search" /\ ~tool_results[k].success
    /\ \E k \in 1..Len(tool_results) :
          tool_results[k].tool = "scraper" /\ ~tool_results[k].success
    /\ \E k \in 1..Len(tool_results) : tool_results[k].tool = "calculator"
    /\ \E k \in 1..Len(tool_results) :
          /\ tool_results[k].tool = "web_search" /\ tool_results[k].success
          /\ \E i \in 1..Len(tool_results[k].result.results) :
                tool_results[k].result.results[i].url = ""
    /\ \E a \in 1..Len(report.citations) :
          report.citations[a] = [title |-> "https://b.org", url |-> "https://b.org"]

----------------------------------------------------------------------------
(* C20 *)

C20_Successful(tool_name) ==
    SelectSeq(tool_results, LAMBDA r : r.success /\ r.tool = tool_name)

\* the parts of the context: per successful search its first 3 items, the
\* first 1000 characters of the first 3 successful scrapes, the payload of
\* the last successful analysis
C20_Parts ==
    LET searches == C20_Successful("web_search")
        scrapes == C20_Successful("scraper")
        analyses == C20_Successful("data_analysis")
    IN  [k \in 1..Len(searches) |->
            SearchResultsHeader
              \o StrItems(SubSeq(searches[k].result.results, 1,
                                 Min(3, Len(searches[k].result.results))))]
        \o [k \in 1..Min(3, Len(scrapes)) |->
              ContentFrom \o Chars(scrapes[k].result.title) \o << ":", "\n" >>
                \o SubSeq(scrapes[k].result.text, 1,
                          Min(1000, Len(scrapes[k].result.text)))]
        \o (IF analyses = <<>> THEN <<>>
            ELSE << DataAnalysisHeader \o StrAnalysis(analyses[Len(analyses)].result) >>)

\* how many search items a text shows
C20_ItemsShown(text) ==
    Cardinality({ i \in 1..(Len(text) - Len(TitleKey) + 1) :
                    text[i] = "{" /\ SubSeq(text, i, i + Len(TitleKey) - 1) = TitleKey })

\* C20 as stated: the context holds at most 3 result items of the search
\* stage.
C20_AsStated ==
    C16_Reported => C20_ItemsShown(generation.context) <= 3

\* C20 as amended: the context is, joined by blank lines, the first 3 items
\* of every successful search result, the first 1000 characters of each of
\* the first 3 successful scrapes under the page title, and the stringified
\* payload of the last successful analysis.
C20_BoundedContext ==
    C16_Reported =>
        /\ generation.context = Join(C20_Parts, << "\n", "\n" >>)
        /\ C20_ItemsShown(generation.context) <= 3 * Len(C20_Successful("web_search"))

\* a context from a search of four items, four scraped pages, one of them
\* longer than 1000 characters, and two analyses
C20_Witness ==
    /\ C16_Reported
    /\ \E k \in 1..Len(tool_results) :
          /\ tool_results[k].tool = "web_search" /\ tool_results[k].success
          /\ Len(tool_results[k].result.results) > 3
    /\ Len(C20_Successful("scraper")) > 3
    /\ Len(C20_Successful("scraper")[1].result.text) > 1000
    /\ Len(C20_Successful("data_analysis")) = 2

----------------------------------------------------------------------------
(* C15 *)

\* C15: research is never ended by an exception, whatever the query and
\* whatever fails, and what it returns holds the report of the run.
C15_AlwaysReturns ==
    /\ pc # "raised"
    /\ pc = "returned" => report # NoReport /\ research_result.report = report

----------------------------------------------------------------------------
(* C21 *)

\* the model call of create_plan raised
C21_Raised == planning # NoPlanning /\ planning.called /\ planning.outcome.raised

\* C21: when self.llm.generate_json raises, create_plan returns the plan
\* with exactly 3 sub-questions, tool_sequence [web_search, scraper,
\* summarizer], success false and the message of the exception as error
C21_FallbackPlan ==
    C21_Raised =>
        /\ Len(plan.sub_questions) = 3
        /\ plan.tool_sequence = << "web_search", "scraper", "summarizer" >>
        /\ plan.success = FALSE
        /\ plan.error = planning.outcome.message

\* a run that went on to its end with the fallback plan
C21_Witness == C21_Raised /\ pc = "returned"

----------------------------------------------------------------------------
(* C22 *)

\* C22: create_plan never raises: whatever the query, research gets a plan
\* back from it and goes on to execute_plan
C22_NeverRaises == [][pc = "planning" => pc' = "loop" /\ plan' # NoPlan]_vars

----------------------------------------------------------------------------
(* C23 *)

\* the model call of create_plan returned an object
C23_Answered == planning # NoPlanning /\ planning.called /\ ~planning.outcome.raised

\* C23: every plan create_plan returns has at least 3 and at most
\* MAX_SUB_QUESTIONS sub-questions and a tool_sequence that is not empty
C23_PlanShape ==
    plan # NoPlan =>
        /\ Len(plan.sub_questions) >= MIN_SUB_QUESTIONS
        /\ Len(plan.sub_questions) <= MAX_SUB_QUESTIONS
        /\ plan.tool_sequence # <<>>

\* the model answered with more sub-questions than the maximum and with an
\* empty tool_sequence
C23_Witness ==
    /\ C23_Answered
    /\ Len(Get(planning.outcome.payload, "sub_questions", <<>>)) > MAX_SUB_QUESTIONS
    /\ Get(planning.outcome.payload, "tool_sequence", << "none" >>) = <<>>
    /\ Len(plan.sub_questions) = MAX_SUB_QUESTIONS

----------------------------------------------------------------------------
(* C25 *)

\* C25: whatever the similarity index answers, research raises nothing
\* because of it and goes on to planning as for no similar result
C25_Swallowed == [][pc = "start" => pc' = "planning"]_vars

----------------------------------------------------------------------------
(* C30 *)

\* C30: execute_plan reads the plan and never writes it: no step of a run
\* changes the plan object, and the sub_questions list in it keeps the
\* entries the pipeline's own truncation leaves out
C30_PlanReadOnly == [][plan' = plan]_vars

\* a run that returned after searching with a truncated copy of a list of
\* more than MAX_SUB_QUESTIONS sub-questions, which the plan still holds
C30_Witness ==
    /\ pc = "done"
    /\ Len(plan.sub_questions) > MAX_SUB_QUESTIONS
    /\ \E i \in 1..Len(invocations) : invocations[i].tool = "web_search"

----------------------------------------------------------------------------
(* C24 *)

\* the results of the invocations of a frame, in order
C24_Results(invs) == [k \in 1..Len(invs) |-> invs[k].result]

\* the item urls of the successful searches among invs, in order
RECURSIVE C24_Urls(_)
C24_Urls(invs) ==
    IF invs = <<>> THEN <<>>
    ELSE CollectUrls(Head(invs).result) \o C24_Urls(Tail(invs))

\* the errors entries the single-invocation stages among invs leave
RECURSIVE C24_Errors(_)
C24_Errors(invs) ==
    IF invs = <<>> THEN <<>>
    ELSE (IF Head(invs).tool \in {"web_search", "scraper"} THEN <<>>
          ELSE StageErrors(Head(invs).tool, Head(invs).result))
         \o C24_Errors(Tail(invs))

\* what a frame holds comes from the invocations made in that frame: the
\* log and the buffer of the stage under way are the results of its
\* invocations in order, the accumulator holds the urls of its searches,
\* errors the failures of its stages, every search asked one of its plan's
\* queries, and the text handed to the summarizer and to data_analysis was
\* collected from the results it had by then
C24_Own(f) ==
    /\ f.tool_results \o (IF f.pc = "search" THEN f.search_results
                           ELSE IF f.pc = "scrape" THEN f.scrape_results ELSE <<>>)
          = C24_Results(f.invocations)
    /\ f.urls_to_scrape = C24_Urls(f.invocations)
    /\ f.errors = C24_Errors(f.invocations)
    /\ \A k \in 1..Len(f.invocations) :
          LET c == f.invocations[k]
              before == C24_Results(SubSeq(f.invocations, 1, k - 1))
          IN  /\ c.tool = "web_search" =>
                    \E n \in 1..Len(SearchQueries(f.plan)) :
                        c.kwargs.query = SearchQueries(f.plan)[n]
              /\ c.tool = "scraper" =>
                    \E n \in 1..Len(C24_Urls(SubSeq(f.invocations, 1, k - 1))) :
                        c.kwargs.url = C24_Urls(SubSeq(f.invocations, 1, k - 1))[n]
              /\ c.tool = "summarizer" =>
                    c.kwargs.text = Take(TextToSummarize(before), BUFFER_LIMIT)
              /\ c.tool = "data_analysis" =>
                    c.kwargs.text = TextToAnalyze(before)

\* C24: under every interleaving of two runs, the log, the errors, the url
\* accumulator and the text buffers of each run hold only what that run's
\* own invocations produced
C24_RunsIndependent == C24_Own(Frame) /\ (parked # NoFrame => C24_Own(parked))

\* both runs are under way at once: the first thread, running again after
\* the second one took its turn, is inside its scraper stage and the second
\* one is parked inside its own, each with urls and results of its own
C24_Witness ==
    /\ running = 1
    /\ pc = "scrape" /\ scrape_results # <<>>
    /\ parked.pc = "scrape" /\ parked.scrape_results # <<>>
    /\ urls_to_scrape # parked.urls_to_scrape

----------------------------------------------------------------------------
(* C26 *)

\* C26: a caller of either endpoint never waits past the deadline of 540 s:
\* while no answer has been given the time elapsed is within the deadline,
\* and a run still going at the deadline is answered with the timeout error
C26_Deadline ==
    /\ request.response = "pending" => request.elapsed <= REQUEST_DEADLINE
    /\ request.response = "timeout" => request.elapsed = REQUEST_DEADLINE
    /\ request.response = "result" => request.run = "returned"

----------------------------------------------------------------------------
(* C27 *)

\* a url with a scheme of its own that is not http or https, or with the
\* scheme http or https and no host, or with no text at all
C27_Unacceptable(url) ==
    LET parsed == urlparse(Strip(url))
    IN  \/ Strip(url) = <<>>
        \/ parsed.raised
        \/ parsed.scheme # <<>> /\ parsed.scheme \notin { HttpScheme, HttpsScheme }
        \/ parsed.scheme \in { HttpScheme, HttpsScheme } /\ parsed.netloc = <<>>

\* C27: for every url whose scheme is not http or https or that has no
\* host, scrape returns success false with the error 'Invalid URL' and has
\* made no cache lookup and no fetch
C27_RejectedFirst ==
    scrape # NoScrape /\ scrape.returned /\ C27_Unacceptable(scrape.url) =>
        /\ ~scrape.result.success
        /\ scrape.result.error = << "Invalid URL" >>
        /\ scrape.lookups = <<>>
        /\ scrape.fetches = <<>>

----------------------------------------------------------------------------
(* C28 *)

\* an entry for the key exists, is well-formed and is not older than the TTL
C28_Usable ==
    /\ cache_file.exists
    /\ cache_file.kind = "entry"
    /\ clock - cache_file.timestamp <= TTL_HOURS

\* the step is a call of get
C28_Get == cache_calls'.op = "get"

----------------------------------------------------------------------------
(* C29 *)

\* the values the sets of the two runs stored
C29_Stored == { cache_calls[r].value : r \in { q \in CacheRuns : cache_calls[q].op = "set" } }

\* C29: however the get and set calls of two runs on one key interleave,
\* no get raises, and once the calls are over a value that was set is what
\* a later get returns
C29_SafeUnderRaces ==
    /\ \A r \in CacheRuns : cache_calls[r].pc # "raised"
    /\ ( /\ \A r \in CacheRuns : cache_calls[r].pc = "done"
         /\ C29_Stored # {} )
       => CacheGet(cache_file, clock).returned \in C29_Stored

----------------------------------------------------------------------------
(* C32 *)

\* the tool's call came back without raising
C32_Returned(inv) == inv.tool \in Registry /\ ~inv.outcome.raised

\* the payload itself reports a failure
C32_PayloadFailed(inv) ==
    /\ C32_Returned(inv)
    /\ \/ ~Get(inv.outcome.payload, "success", TRUE)
       \/ "error" \in DOMAIN inv.outcome.payload

\* the texts of the scrapes that came back, each followed by sep
RECURSIVE C32_Texts(_, _)
C32_Texts(invs, sep) ==
    IF invs = <<>> THEN <<>>
    ELSE (IF Head(invs).tool = "scraper" /\ C32_Returned(Head(invs))
          THEN Head(invs).outcome.payload.text \o sep ELSE <<>>)
         \o C32_Texts(Tail(invs), sep)

\* the invocations made before stage i
C32_Before(i) == SelectSeq(invocations, LAMBDA c : c.stage < i)

\* C32: an invocation whose tool call returns without raising is logged with
\* success=true and the payload as its result, whatever the payload says; in
\* a scraper stage every returned scrape counts toward the stop after 2; the
\* text of every returned scrape is in the buffer of a later data_analysis or
\* summarizer invocation; and no errors entry names a tool whose call
\* returned.
C32_ReturnedIsSuccess ==
    /\ \A k \in 1..Len(invocations) :
          C32_Returned(invocations[k]) =>
              invocations[k].result = [tool |-> invocations[k].tool, success |-> TRUE,
                                       result |-> invocations[k].outcome.payload]
    /\ \A i \in StageIndexes :
          StageIs(i, "scraper") =>
              LET invs == StageInvocations(i)
              IN  \A k \in 1..Len(invs) :
                      Cardinality({ j \in 1..(k - 1) : C32_Returned(invs[j]) })
                          < ENOUGH_SCRAPES
    /\ \A k \in 1..Len(invocations) :
          LET inv == invocations[k]
          IN  /\ inv.tool = "data_analysis" =>
                    inv.kwargs.text = C32_Texts(C32_Before(inv.stage), << " " >>)
              /\ inv.tool = "summarizer" =>
                    inv.kwargs.text
                        = Take(C32_Texts(C32_Before(inv.stage), << "\n", "\n" >>),
                               BUFFER_LIMIT)
    /\ Len(errors) = Cardinality({ k \in 1..Len(invocations) :
                                      /\ invocations[k].tool \notin {"web_search", "scraper"}
                                      /\ ~C32_Returned(invocations[k]) })
    /\ \A e \in 1..Len(errors) :
          \E k \in 1..Len(invocations) :
              /\ invocations[k].tool = errors[e].tool
              /\ ~C32_Returned(invocations[k])

\* a finished run whose search returned three urls: the scrape of the first
\* extracted a page, the scrape of the second (the empty url) came back with
\* success=false in its payload, the third url was not scraped, the analysis
\* that followed was called on a buffer with a separator for each of the two,
\* and errors is empty
C32_Witness ==
    /\ pc = "done"
    /\ errors = <<>>
    /\ \E i \in StageIndexes :
          /\ StageIs(i, "scraper")
          /\ Len(ScrapeCandidates(urls_to_scrape)) = MAX_URLS_TO_SCRAPE
          /\ Len(StageInvocations(i)) = ENOUGH_SCRAPES
          /\ C32_PayloadFailed(StageInvocations(i)[2])
          /\ StageInvocations(i)[2].result.success
          /\ \E k \in 1..Len(invocations) :
                /\ invocations[k].tool = "data_analysis"
                /\ invocations[k].stage > i
                /\ Len(invocations[k].kwargs.text)
                     = Len(StageInvocations(i)[1].outcome.payload.text) + 2

----------------------------------------------------------------------------
(* C33 *)

\* the entries tool_results held when stage i started: those of the
\* invocations of the earlier stages
C33_Log(i) == ResultsOf(SelectSeq(invocations, LAMBDA c : c.stage < i))

C33_HasScrape(log) ==
    \E k \in 1..Len(log) : log[k].tool = "scraper" /\ log[k].success

C33_Buffered == { "data_analysis", "summarizer" }

\* C33: a finished data_analysis or summarizer stage made one invocation
\* when the log held a successful scraper entry at its start, and none
\* otherwise.
C33_InvokedIffScraped ==
    \A i \in StageIndexes :
        (plan.tool_sequence[i] \in C33_Buffered /\ Completed(i)) =>
            /\ Len(StageInvocations(i)) <= 1
            /\ Len(StageInvocations(i)) = 1 <=> C33_HasScrape(C33_Log(i))

\* every scrape in the log extracted the empty text, and the stage called
\* its tool on separators only
C33_Witness ==
    \E i \in StageIndexes :
        /\ plan.tool_sequence[i] \in C33_Buffered /\ Completed(i)
        /\ C33_HasScrape(C33_Log(i))
        /\ \A k \in 1..Len(C33_Log(i)) :
              (C33_Log(i)[k].tool = "scraper" /\ C33_Log(i)[k].success)
                  => C33_Log(i)[k].result.text = <<>>
        /\ Len(StageInvocations(i)) = 1
        /\ StageInvocations(i)[1].kwargs.text \in { << " " >>, << "\n", "\n" >> }

----------------------------------------------------------------------------
(* C34 *)

\* urls_to_scrape as it stood when stage i started: the urls of the search
\* results of the earlier stages, in order
RECURSIVE C34_Collected(_)
C34_Collected(invs) ==
    IF invs = <<>> THEN <<>>
    ELSE (IF Head(invs).tool = "web_search" THEN CollectUrls(Head(invs).result) ELSE <<>>)
         \o C34_Collected(Tail(invs))

C34_UrlsAt(i) == C34_Collected(SelectSeq(invocations, LAMBDA c : c.stage < i))

\* the urls stage i scraped, in order
C34_Scraped(i) ==
    [k \in 1..Len(StageInvocations(i)) |-> StageInvocations(i)[k].calls[1].args.url]

\* C34: the scrapes of a scraper stage go, in order, to the leading urls of
\* urls_to_scrape as it stood when the stage started, at most
\* MAX_URLS_TO_SCRAPE of them; a scraper stage with no search before it
\* scrapes nothing; a scraper stage that directly follows another starts
\* again at the first url; only scraper stages scrape.
C34_LeadingUrlsOnly ==
    /\ \A k \in 1..Len(invocations) :
          invocations[k].tool = "scraper" => StageIs(invocations[k].stage, "scraper")
    /\ \A i \in StageIndexes :
          StageIs(i, "scraper") =>
              /\ IsPrefix(C34_Scraped(i), Take(C34_UrlsAt(i), MAX_URLS_TO_SCRAPE))
              /\ (\A j \in 1..(i - 1) : ~StageIs(j, "web_search"))
                    => StageInvocations(i) = <<>>
              /\ (StageIs(i + 1, "scraper") /\ StageInvocations(i + 1) # <<>>)
                    => /\ StageInvocations(i) # <<>>
                       /\ C34_Scraped(i + 1)[1] = C34_Scraped(i)[1]

\* two scraper stages in a row, the second of which scraped the first url
\* again
C34_Witness ==
    \E i \in StageIndexes :
        /\ StageIs(i, "scraper") /\ StageIs(i + 1, "scraper")
        /\ Completed(i + 1)
        /\ StageInvocations(i) # <<>>
        /\ StageInvocations(i + 1) # <<>>
        /\ C34_Scraped(i + 1)[1] = urls_to_scrape[1]

----------------------------------------------------------------------------
(* C35 *)

\* the longest a stage can take: its entry, MAX_URLS_TO_SCRAPE or
\* MAIN_QUERY_THRESHOLD invocations, its exit
C35_StageSteps == MAX_URLS_TO_SCRAPE + 2

\* how far the run has come: the stage, then the position within it
C35_Progress ==
    IF pc = "done" THEN (Len(tool_sequence) + 2) * C35_StageSteps
    ELSE stage * C35_StageSteps + (IF pc = "loop" THEN 0 ELSE pos)

C35_StagesProcessed == stage - 1

\* C35: every step of execute_plan takes the run strictly further and the
\* progress is bounded by the length of the plan, so the run ends; while a
\* tool call can still be made the run is never stuck short of its return;
\* and in every state tool_results has at most 3 entries and errors at most
\* 1 entry per stage processed.
C35_TerminatesBounded ==
    /\ [][C35_Progress' > C35_Progress]_vars
    /\ [](C35_Progress <= (Len(tool_sequence) + 2) * C35_StageSteps)
    /\ []((pc # "done" /\ CanInvoke) => ENABLED Next)
    /\ [](Len(tool_results) <= 3 * C35_StagesProcessed)
    /\ [](Len(errors) <= C35_StagesProcessed)

\* a returned run one stage of which added 3 entries and another an error
C35_Witness ==
    /\ pc = "done"
    /\ \E i \in StageIndexes : Len(StageInvocations(i)) = 3
    /\ Len(tool_results) >= 3
    /\ errors # <<>>

----------------------------------------------------------------------------
(* C36 *)

\* what a summarizer stage can leave in the log instead of its entry: another
\* summary, a summary the tool reports as failed, a raised call
C36_Summaries ==
    { ExecuteTool("summarizer", [text |-> <<>>],
                  Returned([summary |-> << "t", "u" >>, success |-> TRUE])),
      ExecuteTool("summarizer", [text |-> <<>>],
                  Returned([summary |-> <<>>, success |-> FALSE, error |-> << "llm" >>])) }
    \cup { ExecuteTool("summarizer", [text |-> <<>>], Raised(m)) : m \in ExceptionMessages }

\* the logs that differ from results in their summarizer entries only: each
\* such entry is kept, left out or replaced
RECURSIVE C36_Variants(_)
C36_Variants(results) ==
    IF results = <<>> THEN { <<>> }
    ELSE LET rest == C36_Variants(Tail(results))
             heads == IF Get(Head(results), "tool", "") = "summarizer"
                      THEN { << Head(results) >>, <<>> }
                               \cup { << s >> : s \in C36_Summaries }
                      ELSE { << Head(results) >> }
         IN  { h \o r : h \in heads, r \in rest }

C36_HasSummary(results) ==
    \E k \in 1..Len(results) : results[k].tool = "summarizer" /\ results[k].success

\* C36: generate_report on a log that differs from tool_results only in its
\* summarizer entries builds the same context, extracts the same citations
\* and, given the same answer or failure of the model, returns the same
\* report, the fallback markdown included.
C36_SummariesIgnored ==
    pc = "reported" =>
        \A other \in C36_Variants(tool_results) :
            /\ BuildContext(other) = generation.context
            /\ ExtractCitations(other) = report.citations
            /\ Report(query, other, generation.outcome) = report

\* a fallback report written from a log that holds a summary, searches and
\* pages
C36_Witness ==
    /\ pc = "reported"
    /\ C36_HasSummary(tool_results)
    /\ generation.outcome.raised
    /\ generation.context # <<>>
    /\ report.citations # <<>>
    /\ \E other \in C36_Variants(tool_results) : ~C36_HasSummary(other)

----------------------------------------------------------------------------
(* C37 *)

\* the call of research is over: it returned or an exception ended it
C37_Over == pc \in { "returned", "raised", "similar_raised" }

C37_Adds == SelectSeq(index_calls, LAMBDA c : c.op = "add")

\* C37: whatever use_cache is and whatever the similarity search returned,
\* a call of research that is over has planned, executed and synthesized,
\* each once, has then made one add to the similarity index, and has
\* returned the plan, the tool_results and the report of this run.
C37_NoShortCircuit ==
    /\ [](C37_Over =>
            /\ planning # NoPlanning /\ planning.called
            /\ generation # NoGeneration
            /\ Len(C37_Adds) = 1
            /\ index_calls[Len(index_calls)].op = "add"
            /\ research_result # NoResult
            /\ research_result.plan = plan
            /\ research_result.tool_results = tool_results
            /\ research_result.report = report)
    /\ [][planning # NoPlanning => planning' = planning]_vars
    /\ [][generation # NoGeneration => generation' = generation]_vars
    /\ [][pc = "done" => pc' = "reported"]_vars

----------------------------------------------------------------------------
(* C31 *)

\* the updates of a whole stream, for the plan, the log and the report of
\* the run
C31_Expected ==
    << Update("planning", "in_progress"),
       CompletedUpdate("planning", plan),
       Update("execution", "in_progress") >>
    \o [k \in 1..Len(tool_results) |-> [step |-> "tool_result", data |-> tool_results[k]]]
    \o << CompletedUpdate("execution", ExecutionResults),
          Update("synthesis", "in_progress"),
          CompletedUpdate("synthesis", report),
          [step |-> "complete", query |-> query, plan |-> plan,
           tool_results |-> tool_results, report |-> report, success |-> TRUE],
          DoneLine >>

\* the stream has ended: [DONE] was sent or the generator raised
C31_Ended == pc \in { "stream_done", "stream_raised" }

\* C31: the updates of a stream come in the order planning in_progress,
\* planning completed with the plan, execution in_progress, one tool_result
\* per entry of tool_results in log order, execution completed, synthesis
\* in_progress, synthesis completed with the report, complete, [DONE]; a
\* stream that has ended has sent them all, so every in_progress is followed
\* by its completed and [DONE] is last.
C31_EventOrder ==
    /\ IsPrefix(events, C31_Expected)
    /\ C31_Ended => events = C31_Expected

----------------------------------------------------------------------------
(* C38 *)

\* the complete update of the stream: the last one before [DONE]
C38_Complete == events[Len(events) - 1]

\* research has returned after the stream, on the same answers
C38_BothOver == pc = "returned" /\ parked # NoFrame

----------------------------------------------------------------------------
(* C39 *)

\* the caller of the sync endpoint has received the timeout error
C39_TimedOut == request.response = "timeout"

\* C39: the timeout answer changes nothing in the run: the step that sends
\* it leaves the thread where it is, the thread can take its next step
\* whenever it is running, not over and allowed a further invocation, and
\* the answer stays the timeout whatever the run does afterwards.
C39_RunGoesOn ==
    /\ []((C39_TimedOut /\ running = 1 /\ ~ResearchOver /\ CanInvoke)
            => ENABLED ThreadStep)
    /\ [][(~C39_TimedOut /\ C39_TimedOut')
            => /\ pc' = pc
               /\ plan' = plan
               /\ invocations' = invocations
               /\ tool_results' = tool_results
               /\ index_calls' = index_calls]_vars
    /\ [][C39_TimedOut => C39_TimedOut']_vars

\* the run returned after the timeout answer: it made tool invocations and
\* its add to the similarity index after the answer, and the run of a later
\* request, which has made an invocation of its own, is still under way
C39_Witness ==
    /\ C39_TimedOut
    /\ running = 1
    /\ pc = "returned"
    /\ Len(invocations) > request.invoked
    /\ \E k \in (request.invoked + 1)..Len(invocations) :
          invocations[k].tool \in { "web_search", "scraper" }
    /\ index_calls # <<>>
    /\ index_calls[Len(index_calls)].op = "add"
    /\ index_calls[Len(index_calls)].stored
    /\ parked # NoFrame
    /\ parked.pc # "done"
    /\ parked.invocations # <<>>

====
